---- MODULE Spec2Model ----
(***************************************************************************)
(* Verification model of the zxio private helpers (sdk/lib/zxio/private.h): *)
(* the bounded vector adapter zxio_vmo_do_vector, the ops-table adaptor     *)
(* HasIo::Adaptor<T>::From, zxio_vmo_init and zxio_with_nodeinfo; of the    *)
(* transcoder registers of the intel-i915-tgl display driver; of the cache  *)
(* configuration tables of msd-intel-gen; and of the av400 board driver.    *)
(***************************************************************************)
EXTENDS Integers, Naturals, Sequences, FiniteSets, TLC

(***************************************************************************)
(* Bounds of the model.  size_t is modelled as the unsigned integers        *)
(* 0..SizeMax with wrap-around arithmetic.                                  *)
(***************************************************************************)
SizeMax == 7
MaxStart == 2
MaxLength == 4
MaxCap == 3
MaxVec == 3

SizeMod == SizeMax + 1
SizeT == 0..SizeMax

\* unsigned addition and subtraction of size_t
SizeAdd(a, b) == (a + b) % SizeMod
SizeSub(a, b) == (a - b + SizeMod) % SizeMod

Min(a, b) == IF a <= b THEN a ELSE b

(***************************************************************************)
(* Statuses.  FnErrors are the errors the single-buffer primitive fn may    *)
(* report.                                                                  *)
(***************************************************************************)
ZX_OK == "ZX_OK"
ZX_ERR_INVALID_ARGS == "ZX_ERR_INVALID_ARGS"
FnErrors == {"ZX_ERR_OUT_OF_RANGE", "ZX_ERR_BAD_STATE"}
FnStatuses == {ZX_OK} \cup FnErrors

\* the vectors a caller may pass: the requested capacity of each entry
Vectors == UNION {[1..n -> 0..MaxCap] : n \in 0..MaxVec}

VARIABLES
    start,          \* first byte of the resource the file covers
    length,         \* resource length
    offset,         \* the cell *offset
    offset0,        \* history: *offset in the initial state
    pc,             \* "idle", "loop" (inside zxio_do_vector), "done" (returned)
    vector,         \* the vector of the call in progress
    i,              \* zxio_do_vector's position in the vector (1-based)
    total,          \* zxio_do_vector's running total
    status,         \* status returned by the call
    out_written,    \* whether the call stored *out_actual
    out_actual,     \* the value stored in *out_actual
    entry_offset,   \* history: *offset when the call was entered
    calls           \* history: the invocations of fn made by the call

vmoVars == <<start, length, offset, offset0, pc, vector, i, total, status,
             out_written, out_actual, entry_offset, calls>>

VARIABLES
    objects,        \* storage slot -> the backend object constructed in it, or NoObject
    invocation_count,  \* number of member-function invocations made so far
    last_invocation,   \* the latest member-function invocation
    from_count,     \* number of ops-table entries called so far
    req,            \* the latest ops-table call: io, op, args and the status Op returns
    ret             \* the status the latest ops-table call returned

adaptorVars == <<objects, invocation_count, last_invocation, from_count, req, ret>>

VARIABLES
    vmo_requested,  \* the size the VMO's creator asked the kernel for
    vmo_size,       \* the size the kernel reports for the VMO
    file_init,      \* whether zxio_vmo_init has initialized the file
    file_size,      \* the size of the file
    vmo_init_status \* the status zxio_vmo_init returned

vmoInitVars == <<vmo_requested, vmo_size, file_init, file_size, vmo_init_status>>

VARIABLES
    ddi_ctl,        \* value of a TranscoderDdiControl register object
    last_set,       \* history: the latest set_ddi_*() call made on it
    addr_query      \* history: the latest GetFor*Transcoder() pair evaluated

transVars == <<ddi_ctl, last_set, addr_query>>

VARIABLES
    cc_fn,          \* the CacheConfig table builder running, or "none"
    cc_pc,          \* its position: "idle", "head", "loop", "done"
    cc_index,       \* its index variable
    cc_mocs         \* the vector it fills

cacheVars == <<cc_fn, cc_pc, cc_index, cc_mocs>>

VARIABLES
    ni_pc,          \* zxio_with_nodeinfo: "idle", "described", "done"
    ni_node,        \* who owns the node channel: "caller", "callee", "fn"
    ni_describe,    \* the result of DescribeDeprecated
    ni_fn_calls,    \* how many times fn was invoked by the call
    ni_fn_status,   \* the status fn returned
    ni_ret,         \* the status zxio_with_nodeinfo returned
    ni_calls        \* number of calls made so far

nodeinfoVars == <<ni_pc, ni_node, ni_describe, ni_fn_calls, ni_fn_status, ni_ret,
                  ni_calls>>

VARIABLES
    cr_pc,          \* Av400::Create: "start", "alloc", "pbus", "add", "done"
    cr_env,         \* what the environment answers to Create's requests
    board,          \* the board object: "none", "owned", "released", "destroyed"
    devmgr_device,  \* whether the device manager holds the av400 device
    ddk_add_calls,  \* number of DdkAdd calls
    create_ret,     \* the status Create returned
    init_pc,        \* Av400::DdkInit: "idle", "stored", "created", "done"
    init_txn,       \* init_txn_: "empty" or "stored"
    replies,        \* the statuses init_txn_ was replied with, in order
    th_pc,          \* Av400::Thread: "none", "run", "replied", "returned"
    th_step,        \* the init step Thread is about to run (1-based)
    step_log,       \* the init steps run so far, each with its status
    thread_ret      \* the value Thread returned

av400Vars == <<cr_pc, cr_env, board, devmgr_device, ddk_add_calls, create_ret,
               init_pc, init_txn, replies, th_pc, th_step, step_log, thread_ret>>

VARIABLES
    a11y_focus_info,                 \* a11y_focus_info_: the stored focus, an optional
    get_a11y_focus_called,           \* get_a11y_focus_called_
    set_a11y_focus_called,           \* set_a11y_focus_called_
    update_highlights_called,        \* update_highlights_called_
    should_get_a11y_focus_fail,      \* should_get_a11y_focus_fail_
    should_set_a11y_focus_fail,      \* should_set_a11y_focus_fail_
    on_a11y_focus_updated_callback,  \* whether on_a11y_focus_updated_callback_ holds a callback
    mock_last,                       \* history: the last operation called on the mock
    called_since_reset,              \* history: operations called since ResetExpectations
    last_set_focus                   \* history: the focus of the last successful SetA11yFocus

mockVars == <<a11y_focus_info, get_a11y_focus_called, set_a11y_focus_called,
              update_highlights_called, should_get_a11y_focus_fail,
              should_set_a11y_focus_fail, on_a11y_focus_updated_callback,
              mock_last, called_since_reset, last_set_focus>>

VARIABLES
    pk_fn,          \* the function packing: "none", "InitCacheConfig", "InitCacheConfigGen12"
    pk_pc,          \* "idle", "loop", "done"
    lncf_mocs,      \* the 16-bit table, 0-based
    pk_i,           \* the loop variable i
    lncf_mocs_32,   \* the 32-bit words pushed so far
    pk_reads        \* history: the indices of lncf_mocs read so far

packVars == <<pk_fn, pk_pc, lncf_mocs, pk_i, lncf_mocs_32, pk_reads>>

VARIABLES
    clk_sel,        \* the value of a TranscoderClockSelect register object
    clk_last        \* history: the last setter called on it and the value before

clockVars == <<clk_sel, clk_last>>

\* the variables each part of the model leaves alone
notVmoVars ==
    <<adaptorVars, vmoInitVars, transVars, cacheVars, nodeinfoVars,
      av400Vars, mockVars, packVars, clockVars>>
notAdaptorVars ==
    <<vmoVars, vmoInitVars, transVars, cacheVars, nodeinfoVars,
      av400Vars, mockVars, packVars, clockVars>>
notVmoInitVars ==
    <<vmoVars, adaptorVars, transVars, cacheVars, nodeinfoVars,
      av400Vars, mockVars, packVars, clockVars>>
notTransVars ==
    <<vmoVars, adaptorVars, vmoInitVars, cacheVars, nodeinfoVars,
      av400Vars, mockVars, packVars, clockVars>>
notCacheVars ==
    <<vmoVars, adaptorVars, vmoInitVars, transVars, nodeinfoVars,
      av400Vars, mockVars, packVars, clockVars>>
notNodeinfoVars ==
    <<vmoVars, adaptorVars, vmoInitVars, transVars, cacheVars,
      av400Vars, mockVars, packVars, clockVars>>
notAv400Vars ==
    <<vmoVars, adaptorVars, vmoInitVars, transVars, cacheVars,
      nodeinfoVars, mockVars, packVars, clockVars>>
notMockVars ==
    <<vmoVars, adaptorVars, vmoInitVars, transVars, cacheVars,
      nodeinfoVars, av400Vars, packVars, clockVars>>
notPackVars ==
    <<vmoVars, adaptorVars, vmoInitVars, transVars, cacheVars,
      nodeinfoVars, av400Vars, mockVars, clockVars>>
notClockVars ==
    <<vmoVars, adaptorVars, vmoInitVars, transVars, cacheVars,
      nodeinfoVars, av400Vars, mockVars, packVars>>

vars ==
    <<vmoVars, adaptorVars, vmoInitVars, transVars, cacheVars,
      nodeinfoVars, av400Vars, mockVars, packVars, clockVars>>

(***************************************************************************)
(* zxio_vmo_do_vector: the guard and the closure handed to zxio_do_vector.  *)
(***************************************************************************)
\* if (*offset > length)
OffsetSwapped(off, len) == len > off
OffsetInclusive(off, len) == off >= len
OffsetExceedsLength(off, len) == off > len

\* capacity = std::min(capacity, length - *offset)
ClipUnclipped(capacity, len, off) == capacity
ClipIgnoresOffset(capacity, len, off) == Min(capacity, len)
ClipCapacity(capacity, len, off) == Min(capacity, SizeSub(len, off))

\* the position handed to fn: start + *offset
PositionIgnoresOffset(st, off) == st
FnPosition(st, off) == SizeAdd(st, off)

\* if (status != ZX_OK) return status; ... return ZX_OK;
ClosureSwallowsError(fnStatus) == ZX_OK
ClosureStatus(fnStatus) == IF fnStatus # ZX_OK THEN fnStatus ELSE ZX_OK

\* *offset += capacity, reached only after a successful fn
AdvanceAlways(off, capacity, fnStatus) == SizeAdd(off, capacity)
AdvanceOffset(off, capacity, fnStatus) ==
    IF fnStatus # ZX_OK THEN off ELSE SizeAdd(off, capacity)

\* *out_actual = capacity: the closure reports the clipped capacity
ActualRequested(requested, capacity) == requested
ClosureActual(requested, capacity) == capacity

\* the closure as a whole: what one invocation does, given fn's status
BoundedClosure(requested, fnStatus) ==
    LET capacity == ClipCapacity(requested, length, offset)
    IN  [status   |-> ClosureStatus(fnStatus),
         position |-> FnPosition(start, offset),
         capacity |-> capacity,
         offset   |-> AdvanceOffset(offset, capacity, fnStatus),
         actual   |-> ClosureActual(requested, capacity)]

(***************************************************************************)
(* Actions                                                                  *)
(***************************************************************************)
VmoInit ==
    /\ start \in 0..MaxStart
    /\ length \in 0..MaxLength
    /\ start + length <= SizeMax
    /\ offset \in SizeT
    /\ offset0 = offset
    /\ pc = "idle"
    /\ vector = <<>>
    /\ i = 0
    /\ total = 0
    /\ status = ZX_OK
    /\ out_written = FALSE
    /\ out_actual = 0
    /\ entry_offset = offset
    /\ calls = <<>>

\* zxio_vmo_do_vector entered with *offset > length: return ZX_ERR_INVALID_ARGS
VmoDoVectorReject ==
    /\ pc = "idle"
    /\ OffsetExceedsLength(offset, length)
    /\ \E v \in Vectors : vector' = v
    /\ entry_offset' = offset
    /\ calls' = <<>>
    /\ i' = 0
    /\ total' = 0
    /\ out_written' = FALSE
    /\ out_actual' = 0
    /\ status' = ZX_ERR_INVALID_ARGS
    /\ pc' = "done"
    /\ UNCHANGED <<start, length, offset, offset0>>
    /\ UNCHANGED notVmoVars

\* zxio_vmo_do_vector entered with *offset <= length: call zxio_do_vector
VmoDoVectorEnter ==
    /\ pc = "idle"
    /\ ~OffsetExceedsLength(offset, length)
    /\ \E v \in Vectors : vector' = v
    /\ entry_offset' = offset
    /\ calls' = <<>>
    /\ i' = 1
    /\ total' = 0
    /\ out_written' = FALSE
    /\ out_actual' = 0
    /\ status' = ZX_OK
    /\ pc' = "loop"
    /\ UNCHANGED <<start, length, offset, offset0>>
    /\ UNCHANGED notVmoVars

\* zxio_do_vector: an entry of length zero is skipped
DoVectorSkip ==
    /\ pc = "loop"
    /\ i <= Len(vector)
    /\ vector[i] = 0
    /\ i' = i + 1
    /\ UNCHANGED <<start, length, offset, offset0, pc, vector, total, status,
                   out_written, out_actual, entry_offset, calls>>
    /\ UNCHANGED notVmoVars

\* zxio_do_vector: invoke the closure on an entry of nonzero length
DoVectorInvoke ==
    /\ pc = "loop"
    /\ i <= Len(vector)
    /\ vector[i] # 0
    /\ \E fnStatus \in FnStatuses :
         LET r == BoundedClosure(vector[i], fnStatus)
             call == [idx |-> i, requested |-> vector[i], fn_status |-> fnStatus,
                      status |-> r.status, position |-> r.position,
                      capacity |-> r.capacity, offset_before |-> offset,
                      offset_after |-> r.offset]
         IN  /\ calls' = Append(calls, call)
             /\ offset' = r.offset
             /\ IF r.status # ZX_OK
                  THEN \* stop, propagate the error, keep the total so far
                       /\ status' = r.status
                       /\ out_written' = TRUE
                       /\ out_actual' = total
                       /\ pc' = "done"
                       /\ UNCHANGED <<i, total>>
                  ELSE /\ total' = SizeAdd(total, r.actual)
                       /\ IF r.actual < vector[i]
                            THEN \* short transfer: stop with the partial total
                                 /\ status' = ZX_OK
                                 /\ out_written' = TRUE
                                 /\ out_actual' = total'
                                 /\ pc' = "done"
                                 /\ i' = i
                            ELSE /\ i' = i + 1
                                 /\ UNCHANGED <<status, out_written, out_actual, pc>>
    /\ UNCHANGED <<start, length, offset0, vector, entry_offset>>
    /\ UNCHANGED notVmoVars

\* zxio_do_vector: end of the vector
DoVectorFinish ==
    /\ pc = "loop"
    /\ i > Len(vector)
    /\ status' = ZX_OK
    /\ out_written' = TRUE
    /\ out_actual' = total
    /\ pc' = "done"
    /\ UNCHANGED <<start, length, offset, offset0, vector, i, total,
                   entry_offset, calls>>
    /\ UNCHANGED notVmoVars

\* the caller takes the result; the file is ready for the next call
VmoReturn ==
    /\ pc = "done"
    /\ pc' = "idle"
    /\ vector' = <<>>
    /\ i' = 0
    /\ total' = 0
    /\ status' = ZX_OK
    /\ out_written' = FALSE
    /\ out_actual' = 0
    /\ entry_offset' = offset
    /\ calls' = <<>>
    /\ UNCHANGED <<start, length, offset, offset0>>
    /\ UNCHANGED notVmoVars

(***************************************************************************)
(* HasIo::Adaptor<T>: the compile-time checks, the object layout and the    *)
(* ops-table entry From.  Sizes and addresses are counted in words.         *)
(***************************************************************************)
StorageSize == 4
HeaderSize == 1
VptrSize == 1
MaxLead == 1
MaxExtra == 3
MaxSlots == 2
MaxArg == 1
MaxCalls == 3

NoObject == [kind |-> "none"]
NoRequest == [kind |-> "none"]
Slots == 1..MaxSlots
Ops == {"Release", "Close"}
ArgLists == UNION {[1..n -> 0..MaxArg] : n \in 0..2}
OpStatuses == {ZX_OK, "ZX_ERR_NOT_SUPPORTED", "ZX_ERR_PEER_CLOSED"}

\* the implementation classes a backend author may write: whether the class
\* derives from HasIo, whether it has virtual functions, the words its layout
\* puts before the HasIo base (other bases), and its own members after it
BackendTypes ==
    [is_base_of : BOOLEAN, polymorphic : BOOLEAN, lead : 0..MaxLead, extra : 0..MaxExtra]

\* sizeof(T)
SizeOf(T) ==
    (IF T.polymorphic THEN VptrSize ELSE 0) + T.lead + HeaderSize + T.extra

\* the three static_asserts of Adaptor<T>
AdaptorStaticAsserts(T) ==
    /\ T.is_base_of
    /\ SizeOf(T) <= StorageSize
    /\ ~T.polymorphic

\* offsetof(HasIo, io_) == 0: io_ is the first member of HasIo
OffsetOfIoInHasIo == 0

\* where io() points, relative to the start of the T object
HeaderOffset(T) ==
    (IF T.polymorphic THEN VptrSize ELSE 0) + T.lead + OffsetOfIoInHasIo

\* address of storage slot s
SlotAddress(s) == s * StorageSize

\* T* instance = reinterpret_cast<T*>(io): same address, seen as a T
ReinterpretCast(T, io) == [addr |-> io, type |-> T]

\* FromImpl(memfn, args...): the pack is expanded in order
ForwardReversed(args) == [k \in DOMAIN args |-> args[Len(args) + 1 - k]]
ForwardArgs(args) == args

\* return memfn(instance, args...)
FromDropsStatus(opStatus) == ZX_OK
FromReturn(opStatus) == opStatus

AdaptorInit ==
    /\ objects = [s \in Slots |-> NoObject]
    /\ invocation_count = 0
    /\ last_invocation = NoRequest
    /\ from_count = 0
    /\ req = NoRequest
    /\ ret = ZX_OK

\* a backend initializer constructs a T in a storage slot (HasIo's constructor
\* runs); only classes Adaptor<T> compiles for have an ops table
Construct ==
    /\ \E s \in Slots, T \in BackendTypes :
         /\ objects[s] = NoObject
         /\ AdaptorStaticAsserts(T)
         /\ objects' = [objects EXCEPT ![s] =
                          [kind |-> "object", type |-> T, base |-> SlotAddress(s),
                           io |-> SlotAddress(s) + HeaderOffset(T)]]
    /\ UNCHANGED <<invocation_count, last_invocation, from_count, req, ret>>
    /\ UNCHANGED notAdaptorVars

\* a generic caller calls the ops-table entry Adaptor<T>::From<Op>(io, args...)
AdaptorFrom ==
    /\ from_count < MaxCalls
    /\ \E s \in Slots, op \in Ops, args \in ArgLists, opStatus \in OpStatuses :
         /\ objects[s] # NoObject
         /\ LET io == objects[s].io
                T == objects[s].type
            IN  /\ req' = [kind |-> "call", io |-> io, type |-> T, op |-> op,
                           args |-> args, op_status |-> opStatus]
                /\ last_invocation' = [kind |-> "call",
                                       instance |-> ReinterpretCast(T, io),
                                       op |-> op, args |-> ForwardArgs(args)]
                /\ invocation_count' = invocation_count + 1
                /\ ret' = FromReturn(opStatus)
    /\ from_count' = from_count + 1
    /\ UNCHANGED objects
    /\ UNCHANGED notAdaptorVars

(***************************************************************************)
(* zxio_vmo_init: the file is sized by reading the VMO's size from the      *)
(* kernel, which keeps VMO sizes at whole pages.                            *)
(***************************************************************************)
PageSize == 4
MaxRequest == 40

\* the kernel rounds the size of a VMO up to a page boundary
RoundUpToPage(n) == ((n + PageSize - 1) \div PageSize) * PageSize

\* vmo.get_size(): the size the kernel reports
GetSizeUnrounded(requested, size) == requested
VmoGetSize(requested, size) == size

VmoInitStatuses == {ZX_OK, "ZX_ERR_BAD_HANDLE"}

VmoInitInit ==
    /\ vmo_requested \in 0..MaxRequest
    /\ vmo_size = RoundUpToPage(vmo_requested)
    /\ file_init = FALSE
    /\ file_size = 0
    /\ vmo_init_status = "none"

VmoInitIdle ==
    /\ vmo_requested = 0
    /\ vmo_size = 0
    /\ file_init = FALSE
    /\ file_size = 0
    /\ vmo_init_status = "none"

\* the VMO's owner resizes it before handing it to zxio_vmo_init
VmoSetSize ==
    /\ vmo_init_status = "none"
    /\ \E r \in 0..MaxRequest :
         /\ r # vmo_requested
         /\ vmo_requested' = r
         /\ vmo_size' = RoundUpToPage(r)
    /\ UNCHANGED <<file_init, file_size, vmo_init_status>>
    /\ UNCHANGED notVmoInitVars

\* zxio_vmo_init(file, vmo, stream)
ZxioVmoInit ==
    /\ vmo_init_status = "none"
    /\ \E st \in VmoInitStatuses :
         /\ vmo_init_status' = st
         /\ IF st = ZX_OK
              THEN /\ file_init' = TRUE
                   /\ file_size' = VmoGetSize(vmo_requested, vmo_size)
              ELSE UNCHANGED <<file_init, file_size>>
    /\ UNCHANGED <<vmo_requested, vmo_size>>
    /\ UNCHANGED notVmoInitVars

(***************************************************************************)
(* Transcoder registers (intel-i915-tgl/registers-transcoder.h)             *)
(***************************************************************************)
RECURSIVE Pow2(_)
Pow2(n) == IF n = 0 THEN 1 ELSE 2 * Pow2(n - 1)

\* A 32-bit register value is the set of the positions (0..31) of its 1 bits.
RegisterBits == 0..31

\* the 1 bits of the w-bit unsigned number x, and the number with these 1 bits
BitsOf(x, w) == {b \in 0..(w - 1) : (x \div Pow2(b)) % 2 = 1}

\* DEF_FIELD(hi, lo, name): the accessors name() and set_name() of a register
RECURSIVE ValueOf(_)
ValueOf(bits) ==
    IF bits = {}
      THEN 0
      ELSE LET b == CHOOSE x \in bits : TRUE
           IN  Pow2(b) + ValueOf(bits \ {b})
GetField(v, hi, lo) == ValueOf({b - lo : b \in v \cap (lo..hi)})
SetField(v, hi, lo, x) ==
    (v \ (lo..hi)) \cup {b + lo : b \in BitsOf(x, hi - lo + 1)}

\* static_cast<int8_t>(x)
ToInt8(x) == IF x % 256 >= 128 THEN (x % 256) - 256 ELSE x % 256

\* enum Ddi: DDI_A..DDI_E on Kaby Lake, DDI_A..DDI_TC_6 on Tiger Lake
DDI_A == 0
DDI_E == 4
DDI_TC_6 == 8
KabyLakeDdis == DDI_A..DDI_E
TigerLakeDdis == DDI_A..DDI_TC_6

\* std::optional<Ddi>
NullOpt == [has_value |-> FALSE]
Some(d) == [has_value |-> TRUE, value |-> d]
OptionalDdis(ddis) == {NullOpt} \cup {Some(d) : d \in ddis}

\* DEF_FIELD(30, 27, ddi_select_subtle)
ddi_select_subtle(v) == GetField(v, 30, 27)
set_ddi_select_subtle(v, x) == SetField(v, 30, 27, x)

\* ddi_kaby_lake(): const int ddi_index = (ddi_select_raw_value >> 1)
KabyLakeDecodeUnshifted(raw) == raw
KabyLakeDecode(raw) == raw \div 2

ddi_kaby_lake(v) ==
    LET ddi_select_raw_value == ToInt8(ddi_select_subtle(v))
    IN  IF ddi_select_raw_value = 0
          THEN NullOpt
          ELSE Some(KabyLakeDecode(ddi_select_raw_value))

\* ddi_tiger_lake(): const int ddi_index = ddi_select_raw_value - 1
TigerLakeDecode(raw) == raw - 1

ddi_tiger_lake(v) ==
    LET ddi_select_raw_value == ToInt8(ddi_select_subtle(v))
    IN  IF ddi_select_raw_value = 0
          THEN NullOpt
          ELSE Some(TigerLakeDecode(ddi_select_raw_value))

\* set_ddi_kaby_lake(): set_ddi_select_subtle(ddi_index << 1)
KabyLakeEncode(ddi_index) == ddi_index * 2

set_ddi_kaby_lake(v, ddi) ==
    IF ~ddi.has_value
      THEN set_ddi_select_subtle(v, 0)
      ELSE set_ddi_select_subtle(v, KabyLakeEncode(ddi.value - DDI_A))

\* set_ddi_tiger_lake(): set_ddi_select_subtle(ddi_index + 1)
TigerLakeEncode(ddi_index) == ddi_index + 1

set_ddi_tiger_lake(v, ddi) ==
    IF ~ddi.has_value
      THEN set_ddi_select_subtle(v, 0)
      ELSE set_ddi_select_subtle(v, TigerLakeEncode(ddi.value - DDI_A))

\* enum Trans
TRANS_A == 0
TRANS_B == 1
TRANS_C == 2
TRANS_D == 3
TRANS_EDP == 4
Transcoders == {TRANS_A, TRANS_B, TRANS_C, TRANS_D, TRANS_EDP}

Registers == {"TranscoderDdiControl", "TranscoderConfig", "TranscoderDataM",
              "TranscoderDataN", "TranscoderLinkM", "TranscoderLinkN",
              "TranscoderMainStreamAttributeMisc"}

\* hwreg::RegisterAddr<RegType>(addr); a failed ZX_ASSERT ends the program
RegisterAddr(type, addr) == [asserted |-> FALSE, type |-> type, addr |-> addr]
AssertFailed == [asserted |-> TRUE]

\* the address literals of GetForKabyLakeTranscoder: TRANS_EDP, and TRANS_A
KabyLakeEdpAddr(reg) ==
    CASE reg = "TranscoderDdiControl" -> 455680                  \* 0x6f400
      [] reg = "TranscoderConfig" -> 520200                      \* 0x7f008
      [] reg = "TranscoderDataM" -> 454704                       \* 0x6f030
      [] reg = "TranscoderDataN" -> 454708                       \* 0x6f034
      [] reg = "TranscoderLinkM" -> 454720                       \* 0x6f040
      [] reg = "TranscoderLinkN" -> 454724                       \* 0x6f044
      [] reg = "TranscoderMainStreamAttributeMisc" -> 455696     \* 0x6f410

KabyLakeBase(reg) ==
    CASE reg = "TranscoderDdiControl" -> 394240                  \* 0x60400
      [] reg = "TranscoderConfig" -> 458760                      \* 0x70008
      [] reg = "TranscoderDataM" -> 393264                       \* 0x60030
      [] reg = "TranscoderDataN" -> 393268                       \* 0x60034
      [] reg = "TranscoderLinkM" -> 393280                       \* 0x60040
      [] reg = "TranscoderLinkN" -> 393284                       \* 0x60044
      [] reg = "TranscoderMainStreamAttributeMisc" -> 394256     \* 0x60410

\* the address literal and the register type of GetForTigerLakeTranscoder
TigerLakeBaseMsaAsDdiControl(reg) ==
    IF reg = "TranscoderMainStreamAttributeMisc" THEN 394240 ELSE KabyLakeBase(reg)
TigerLakeBase(reg) ==
    CASE reg = "TranscoderDdiControl" -> 394240                  \* 0x60400
      [] reg = "TranscoderConfig" -> 458760                      \* 0x70008
      [] reg = "TranscoderDataM" -> 393264                       \* 0x60030
      [] reg = "TranscoderDataN" -> 393268                       \* 0x60034
      [] reg = "TranscoderLinkM" -> 393280                       \* 0x60040
      [] reg = "TranscoderLinkN" -> 393284                       \* 0x60044
      [] reg = "TranscoderMainStreamAttributeMisc" -> 394256     \* 0x60410

TigerLakeResultType(reg) ==
    IF reg = "TranscoderMainStreamAttributeMisc" THEN "TranscoderClockSelect" ELSE reg

\* Reg::GetForKabyLakeTranscoder(transcoder)
GetForKabyLakeTranscoder(reg, transcoder) ==
    IF transcoder = TRANS_EDP
      THEN RegisterAddr(reg, KabyLakeEdpAddr(reg))
      ELSE IF ~(transcoder >= TRANS_A /\ transcoder <= TRANS_C)
             THEN AssertFailed
             ELSE LET transcoder_index == transcoder - TRANS_A
                  IN  RegisterAddr(reg, KabyLakeBase(reg) + 4096 * transcoder_index)

\* Reg::GetForTigerLakeTranscoder(transcoder)
GetForTigerLakeTranscoder(reg, transcoder) ==
    IF ~(transcoder >= TRANS_A /\ transcoder <= TRANS_C)
      THEN AssertFailed
      ELSE LET transcoder_index == transcoder - TRANS_A
           IN  RegisterAddr(TigerLakeResultType(reg),
                            TigerLakeBase(reg) + 4096 * transcoder_index)

\* TranscoderRegs(transcoder).DdiControl(), Config(), ...: the Kaby Lake getter
TranscoderRegsGet(reg, transcoder) == GetForKabyLakeTranscoder(reg, transcoder)

\* the register values a TranscoderDdiControl object starts from: the enable
\* bit, the DDI select field and a bit below the field, each set or clear
InitialDdiControls ==
    {e \cup f \cup b : e \in {{}, {31}}, f \in {{}, 27..30}, b \in {{}, {26}}}

NoCall == [kind |-> "none"]

TransInit ==
    /\ ddi_ctl \in InitialDdiControls
    /\ last_set = NoCall
    /\ addr_query = NoCall

TransIdle ==
    /\ ddi_ctl = {}
    /\ last_set = NoCall
    /\ addr_query = NoCall

\* reg.set_ddi_kaby_lake(ddi); the ZX_DEBUG_ASSERT on DDI A stops a debug build
\* and is compiled out of a release build
SetDdiKabyLake ==
    /\ \E ddi \in OptionalDdis(KabyLakeDdis), debug \in BOOLEAN :
         IF debug /\ ddi.has_value /\ ddi.value = DDI_A
           THEN /\ last_set' = [kind |-> "assert", gen |-> "kaby_lake", ddi |-> ddi]
                /\ UNCHANGED ddi_ctl
           ELSE /\ last_set' = [kind |-> "set", gen |-> "kaby_lake", ddi |-> ddi]
                /\ ddi_ctl' = set_ddi_kaby_lake(ddi_ctl, ddi)
    /\ UNCHANGED addr_query
    /\ UNCHANGED notTransVars

\* reg.set_ddi_tiger_lake(ddi)
SetDdiTigerLake ==
    /\ \E ddi \in OptionalDdis(TigerLakeDdis) :
         /\ last_set' = [kind |-> "set", gen |-> "tiger_lake", ddi |-> ddi]
         /\ ddi_ctl' = set_ddi_tiger_lake(ddi_ctl, ddi)
    /\ UNCHANGED addr_query
    /\ UNCHANGED notTransVars

\* the driver asks for a register's address for a transcoder, by both getters
\* and through TranscoderRegs
QueryAddress ==
    /\ \E reg \in Registers, transcoder \in Transcoders :
         addr_query' = [kind |-> "query", reg |-> reg, transcoder |-> transcoder,
                        kaby_lake |-> GetForKabyLakeTranscoder(reg, transcoder),
                        tiger_lake |-> GetForTigerLakeTranscoder(reg, transcoder),
                        regs |-> TranscoderRegsGet(reg, transcoder)]
    /\ UNCHANGED <<ddi_ctl, last_set>>
    /\ UNCHANGED notTransVars

(***************************************************************************)
(* CacheConfig table builders (msd-intel-gen/src/cache_config.cc)           *)
(***************************************************************************)
kMemoryObjectControlStateEntries == 62

TableIndices == 0..(kMemoryObjectControlStateEntries - 1)

\* MemoryObjectControlState::format(cacheability, cache, lru_management)
Format(cacheability, cache, lru) ==
    [cacheability |-> cacheability, cache |-> cache, lru |-> lru]

\* LncfMemoryObjectControlState::format(cacheability)
LncfFormat(cacheability) == [cacheability |-> cacheability]

\* an element as mocs.resize() leaves it: value-initialized, not yet assigned
Unassigned == [cacheability |-> "unassigned"]

Builders == {"GetMemoryObjectControlState", "GetLncfMemoryObjectControlState",
             "GetMemoryObjectControlStateGen12",
             "GetLncfMemoryObjectControlStateGen12"}

\* GetMemoryObjectControlState: the three leading entries and the rest
GraphicsEntryCachedAtOne(index) ==
    CASE index = 0 -> Format("UNCACHED", "LLC_ELLC", "LRU_0")
      [] index = 1 -> Format("WRITEBACK", "LLC_ELLC", "LRU_3")
      [] index = 2 -> Format("PAGETABLE", "LLC_ELLC", "LRU_3")
      [] OTHER -> Format("UNCACHED", "LLC_ELLC", "LRU_0")
GraphicsEntry(index) ==
    CASE index = 0 -> Format("UNCACHED", "LLC_ELLC", "LRU_0")
      [] index = 1 -> Format("PAGETABLE", "LLC_ELLC", "LRU_3")
      [] index = 2 -> Format("WRITEBACK", "LLC_ELLC", "LRU_3")
      [] OTHER -> Format("UNCACHED", "LLC_ELLC", "LRU_0")

\* GetLncfMemoryObjectControlState: the three leading entries and the rest
LncfEntry(index) ==
    CASE index = 0 -> LncfFormat("UNCACHED")
      [] index = 1 -> LncfFormat("WRITEBACK")
      [] index = 2 -> LncfFormat("WRITEBACK")
      [] OTHER -> LncfFormat("UNCACHED")

\* GetMemoryObjectControlStateGen12: kCached, kUncached and the switch
kUncached == Format("UNCACHED", "LLC", "LRU_0")
kCached == Format("WRITEBACK", "LLC", "LRU_3")

Gen12Entry(index) ==
    CASE index = 2 -> kCached
      [] index = 48 -> kCached
      [] index = 60 -> kCached
      [] index = 3 -> kUncached
      [] OTHER -> kUncached

\* GetLncfMemoryObjectControlStateGen12: the switch
Gen12LncfEntryCachesCcs(index) ==
    CASE index = 2 -> LncfFormat("WRITEBACK")
      [] index = 48 -> LncfFormat("WRITEBACK")
      [] index = 60 -> LncfFormat("WRITEBACK")
      [] OTHER -> LncfFormat("UNCACHED")
Gen12LncfEntry(index) ==
    CASE index = 2 -> LncfFormat("WRITEBACK")
      [] index = 48 -> LncfFormat("WRITEBACK")
      [] index = 3 -> LncfFormat("UNCACHED")
      [] index = 60 -> LncfFormat("UNCACHED")
      [] OTHER -> LncfFormat("UNCACHED")

\* the entry a builder assigns to mocs[index]
BuilderEntry(fn, index) ==
    CASE fn = "GetMemoryObjectControlState" -> GraphicsEntry(index)
      [] fn = "GetLncfMemoryObjectControlState" -> LncfEntry(index)
      [] fn = "GetMemoryObjectControlStateGen12" -> Gen12Entry(index)
      [] fn = "GetLncfMemoryObjectControlStateGen12" -> Gen12LncfEntry(index)

\* whether the builder assigns three entries before its loop
HasHead(fn) ==
    fn \in {"GetMemoryObjectControlState", "GetLncfMemoryObjectControlState"}

CacheInit ==
    /\ cc_fn = "none"
    /\ cc_pc = "idle"
    /\ cc_index = 0
    /\ cc_mocs = <<>>

\* a builder is called with an empty vector: mocs.resize(), index = 0
CacheCall ==
    /\ cc_pc = "idle"
    /\ \E fn \in Builders :
         /\ cc_fn' = fn
         /\ cc_pc' = IF HasHead(fn) THEN "head" ELSE "loop"
    /\ cc_index' = 0
    /\ cc_mocs' = [k \in TableIndices |-> Unassigned]
    /\ UNCHANGED notCacheVars

\* mocs[index++] = ...: one of the three assignments before the loop
CacheWriteHead ==
    /\ cc_pc = "head"
    /\ cc_mocs' = [cc_mocs EXCEPT ![cc_index] = BuilderEntry(cc_fn, cc_index)]
    /\ cc_index' = cc_index + 1
    /\ cc_pc' = IF cc_index' = 3 THEN "loop" ELSE "head"
    /\ UNCHANGED cc_fn
    /\ UNCHANGED notCacheVars

\* one iteration of the while or for loop
CacheWriteLoop ==
    /\ cc_pc = "loop"
    /\ cc_index < kMemoryObjectControlStateEntries
    /\ cc_mocs' = [cc_mocs EXCEPT ![cc_index] = BuilderEntry(cc_fn, cc_index)]
    /\ cc_index' = cc_index + 1
    /\ UNCHANGED <<cc_fn, cc_pc>>
    /\ UNCHANGED notCacheVars

\* the loop ends: the builder returns
CacheReturn ==
    /\ cc_pc = "loop"
    /\ ~(cc_index < kMemoryObjectControlStateEntries)
    /\ cc_pc' = "done"
    /\ UNCHANGED <<cc_fn, cc_index, cc_mocs>>
    /\ UNCHANGED notCacheVars

\* the caller has used the table; the next builder may be called
CacheNext ==
    /\ cc_pc = "done"
    /\ cc_fn' = "none"
    /\ cc_pc' = "idle"
    /\ cc_index' = 0
    /\ cc_mocs' = <<>>
    /\ UNCHANGED notCacheVars

(***************************************************************************)
(* zxio_with_nodeinfo (sdk/lib/zxio/private.h)                              *)
(***************************************************************************)
MaxNodeinfoCalls == 5

TransportErrors == {"ZX_ERR_PEER_CLOSED", "ZX_ERR_TIMED_OUT"}
NodeInfoKinds == {"service", "file", "directory", "vmofile", "tty"}
NodeinfoFnStatuses == {ZX_OK, "ZX_ERR_NOT_SUPPORTED", "ZX_ERR_NO_MEMORY"}

\* the fidl::WireResult of DescribeDeprecated
DescribeResults ==
    {[ok |-> FALSE, status |-> e, info |-> "none"] : e \in TransportErrors}
        \cup {[ok |-> TRUE, status |-> ZX_OK, info |-> k] : k \in NodeInfoKinds}
NoResult == [ok |-> FALSE, status |-> "none", info |-> "none"]

\* if (!result.ok())
DescribeCheckInverted(result) == result.ok
DescribeFailed(result) == ~result.ok

NodeinfoInit ==
    /\ ni_pc = "idle"
    /\ ni_node = "caller"
    /\ ni_describe = NoResult
    /\ ni_fn_calls = 0
    /\ ni_fn_status = "none"
    /\ ni_ret = "none"
    /\ ni_calls = 0

\* zxio_with_nodeinfo(node, fn) is entered: node is moved into the parameter
\* and fidl::WireCall(node)->DescribeDeprecated() returns
NodeinfoDescribe ==
    /\ ni_pc = "idle"
    /\ ni_calls < MaxNodeinfoCalls
    /\ \E result \in DescribeResults : ni_describe' = result
    /\ ni_node' = "callee"
    /\ ni_pc' = "described"
    /\ ni_fn_calls' = 0
    /\ ni_fn_status' = "none"
    /\ ni_ret' = "none"
    /\ ni_calls' = ni_calls + 1
    /\ UNCHANGED notNodeinfoVars

\* return result.status(); the parameter node is destroyed
NodeinfoReturnStatus ==
    /\ ni_pc = "described"
    /\ DescribeFailed(ni_describe)
    /\ ni_ret' = ni_describe.status
    /\ ni_node' = "closed"
    /\ ni_pc' = "done"
    /\ UNCHANGED <<ni_describe, ni_fn_calls, ni_fn_status, ni_calls>>
    /\ UNCHANGED notNodeinfoVars

\* return fn(std::move(node), result.value().info)
NodeinfoInvokeFn ==
    /\ ni_pc = "described"
    /\ ~DescribeFailed(ni_describe)
    /\ \E st \in NodeinfoFnStatuses :
         /\ ni_fn_status' = st
         /\ ni_ret' = st
    /\ ni_fn_calls' = ni_fn_calls + 1
    /\ ni_node' = "fn"
    /\ ni_pc' = "done"
    /\ UNCHANGED <<ni_describe, ni_calls>>
    /\ UNCHANGED notNodeinfoVars

\* the caller takes the status and may open another node
NodeinfoNext ==
    /\ ni_pc = "done"
    /\ ni_pc' = "idle"
    /\ ni_node' = "caller"
    /\ UNCHANGED <<ni_describe, ni_fn_calls, ni_fn_status, ni_ret, ni_calls>>
    /\ UNCHANGED notNodeinfoVars

(***************************************************************************)
(* The av400 board driver (devices/board/drivers/av400/av400.cc)            *)
(***************************************************************************)
ZX_ERR_NO_MEMORY == "ZX_ERR_NO_MEMORY"
ZX_ERR_INTERNAL == "ZX_ERR_INTERNAL"

\* what Create's environment may answer: device_get_protocol's status, whether
\* the allocation succeeds, whether pbus_ is valid, and DdkAdd's status
CreateEnvs ==
    [iommu : {ZX_OK, "ZX_ERR_NOT_SUPPORTED"},
     alloc_ok : BOOLEAN,
     pbus_valid : BOOLEAN,
     ddk_add : {ZX_OK, "ZX_ERR_BAD_STATE", "ZX_ERR_ALREADY_EXISTS"}]
NoEnv == [iommu |-> "none", alloc_ok |-> FALSE, pbus_valid |-> FALSE, ddk_add |-> "none"]

\* if (!board->pbus_.is_valid())
PbusCheckSkipped(valid) == FALSE
PbusInvalid(valid) == ~valid

\* Av400::Create as a whole: the status it returns, the state it leaves the
\* board object in, the DdkAdd calls it makes and whether the device was added
CreateOutcome(env) ==
    IF env.iommu # ZX_OK
      THEN [ret |-> env.iommu, board |-> "none", adds |-> 0, added |-> FALSE]
    ELSE IF ~env.alloc_ok
      THEN [ret |-> ZX_ERR_NO_MEMORY, board |-> "none", adds |-> 0, added |-> FALSE]
    ELSE IF PbusInvalid(env.pbus_valid)
      THEN [ret |-> ZX_ERR_INTERNAL, board |-> "destroyed", adds |-> 0, added |-> FALSE]
    ELSE IF env.ddk_add # ZX_OK
      THEN [ret |-> env.ddk_add, board |-> "destroyed", adds |-> 1, added |-> FALSE]
    ELSE IF env.ddk_add = ZX_OK
      THEN [ret |-> env.ddk_add, board |-> "released", adds |-> 1, added |-> TRUE]
    ELSE [ret |-> env.ddk_add, board |-> "destroyed", adds |-> 1, added |-> TRUE]

\* the init steps of Av400::Thread, in the order of the code
InitStepsPwmFirst ==
    <<"PwmInit", "GpioInit", "ClkInit", "I2cInit", "RegistersInit", "EmmcInit",
      "SpiInit", "SdioInit", "EthInit", "RtcInit", "AudioInit", "UsbInit",
      "ThermalInit", "SysmemInit", "TeeInit", "PowerInit", "CpuInit", "DmcInit",
      "ButtonsInit", "MailboxInit", "DspInit">>
InitSteps ==
    <<"GpioInit", "PwmInit", "ClkInit", "I2cInit", "RegistersInit", "EmmcInit",
      "SpiInit", "SdioInit", "EthInit", "RtcInit", "AudioInit", "UsbInit",
      "ThermalInit", "SysmemInit", "TeeInit", "PowerInit", "CpuInit", "DmcInit",
      "ButtonsInit", "MailboxInit", "DspInit">>

StepStatuses == {ZX_OK, "ZX_ERR_NOT_FOUND", "ZX_ERR_IO"}

\* if ((status = XInit()) != ZX_OK)
StepFailed(st) == st # ZX_OK

\* if (rc != thrd_success)
ThrdCheckInverted(rc) == rc = "thrd_success"
ThrdCreateFailed(rc) == rc # "thrd_success"

\* init_txn_->Reply(status)
Reply(st, who) == Append(replies, [status |-> st, by |-> who, txn |-> init_txn])

Av400Init ==
    /\ cr_pc = "start"
    /\ cr_env = NoEnv
    /\ board = "none"
    /\ devmgr_device = FALSE
    /\ ddk_add_calls = 0
    /\ create_ret = "none"
    /\ init_pc = "idle"
    /\ init_txn = "empty"
    /\ replies = <<>>
    /\ th_pc = "none"
    /\ th_step = 1
    /\ step_log = <<>>
    /\ thread_ret = "none"

\* the driver's bind hook: Av400::Create(ctx, parent)
Av400Create ==
    /\ cr_pc = "start"
    /\ \E env \in CreateEnvs :
         LET out == CreateOutcome(env)
         IN  /\ cr_env' = env
             /\ create_ret' = out.ret
             /\ board' = out.board
             /\ ddk_add_calls' = out.adds
             /\ devmgr_device' = out.added
    /\ cr_pc' = "done"
    /\ UNCHANGED <<init_pc, init_txn, replies, th_pc, th_step, step_log, thread_ret>>
    /\ UNCHANGED notAv400Vars

\* DdkInit, called by the device manager on the added device:
\* init_txn_ = std::move(txn)
DdkInitStore ==
    /\ devmgr_device
    /\ init_pc = "idle"
    /\ init_txn' = "stored"
    /\ init_pc' = "stored"
    /\ UNCHANGED <<cr_pc, cr_env, board, devmgr_device, ddk_add_calls, create_ret,
                   replies, th_pc, th_step, step_log, thread_ret>>
    /\ UNCHANGED notAv400Vars

\* DdkInit: thrd_create_with_name(...); on success Thread starts running
DdkInitThrdCreate ==
    /\ init_pc = "stored"
    /\ \E rc \in {"thrd_success", "thrd_nomem"} :
         IF ThrdCreateFailed(rc)
           THEN /\ init_pc' = "create_failed"
                /\ th_pc' = IF rc = "thrd_success" THEN "run" ELSE "none"
           ELSE /\ init_pc' = "created"
                /\ th_pc' = IF rc = "thrd_success" THEN "run" ELSE "none"
    /\ UNCHANGED <<cr_pc, cr_env, board, devmgr_device, ddk_add_calls, create_ret,
                   init_txn, replies, th_step, step_log, thread_ret>>
    /\ UNCHANGED notAv400Vars

\* DdkInit: init_txn_->Reply(ZX_ERR_INTERNAL), and return
DdkInitReplyInternal ==
    /\ init_pc = "create_failed"
    /\ replies' = Reply(ZX_ERR_INTERNAL, "DdkInit")
    /\ init_pc' = "done"
    /\ UNCHANGED <<cr_pc, cr_env, board, devmgr_device, ddk_add_calls, create_ret,
                   init_txn, th_pc, th_step, step_log, thread_ret>>
    /\ UNCHANGED notAv400Vars

\* DdkInit returns after the thread was created
DdkInitReturn ==
    /\ init_pc = "created"
    /\ init_pc' = "done"
    /\ UNCHANGED <<cr_pc, cr_env, board, devmgr_device, ddk_add_calls, create_ret,
                   init_txn, replies, th_pc, th_step, step_log, thread_ret>>
    /\ UNCHANGED notAv400Vars

\* Thread: run the next init step; on failure reply with its status and return
ThreadRunStep ==
    /\ th_pc = "run"
    /\ th_step <= Len(InitSteps)
    /\ \E st \in StepStatuses :
         /\ step_log' = Append(step_log, [step |-> InitSteps[th_step], status |-> st])
         /\ IF StepFailed(st)
              THEN /\ replies' = Reply(st, "Thread")
                   /\ thread_ret' = st
                   /\ th_pc' = "returned"
                   /\ UNCHANGED th_step
              ELSE /\ th_step' = th_step + 1
                   /\ UNCHANGED <<replies, thread_ret, th_pc>>
    /\ UNCHANGED <<cr_pc, cr_env, board, devmgr_device, ddk_add_calls, create_ret,
                   init_pc, init_txn>>
    /\ UNCHANGED notAv400Vars

\* Thread: after the last step, init_txn_->Reply(status); return ZX_OK
ThreadFinish ==
    /\ th_pc = "run"
    /\ th_step > Len(InitSteps)
    /\ replies' = Reply(step_log[Len(step_log)].status, "Thread")
    /\ thread_ret' = ZX_OK
    /\ th_pc' = "returned"
    /\ UNCHANGED <<cr_pc, cr_env, board, devmgr_device, ddk_add_calls, create_ret,
                   init_pc, init_txn, th_step, step_log>>
    /\ UNCHANGED notAv400Vars


(***************************************************************************)
(* MockA11yFocusManager (screen_reader/focus/tests/mocks)                   *)
(***************************************************************************)
MaxKoid == 2
MaxNodeId == 1
Koids == 1..MaxKoid
NodeIds == 0..MaxNodeId

\* std::optional<A11yFocusInfo>: std::nullopt, and a focus
NoFocus == [has_value |-> FALSE, view_ref_koid |-> 0, node_id |-> 0]
A11yFocusInfo(koid, node_id) ==
    [has_value |-> TRUE, view_ref_koid |-> koid, node_id |-> node_id]

NoOperation == [op |-> "none"]

\* the five bool members, as an operation finds them
MockFlags ==
    [get_called |-> get_a11y_focus_called,
     set_called |-> set_a11y_focus_called,
     highlights_called |-> update_highlights_called,
     get_fail |-> should_get_a11y_focus_fail,
     set_fail |-> should_set_a11y_focus_fail]

\* the record of an operation: its arguments, what it invoked in which order,
\* what it returned, and the focus and flags it found
Operation(op, koid, node_id, trace, result) ==
    [op |-> op, koid |-> koid, node_id |-> node_id, trace |-> trace,
     result |-> result, focus_before |-> a11y_focus_info,
     flags_before |-> MockFlags]

\* what an operation does that a test can observe, in order
Stored(info) == [ev |-> "store", value |-> info, ok |-> TRUE]
FocusUpdated(info) == [ev |-> "on_a11y_focus_updated", value |-> info, ok |-> TRUE]
Completion(ok) == [ev |-> "callback", value |-> NoFocus, ok |-> ok]

\* GetA11yFocus: if (!should_get_a11y_focus_fail_) return a11y_focus_info_;
\* return std::nullopt
GetA11yFocusResult(fail, info) == IF ~fail THEN info ELSE NoFocus

\* SetA11yFocus: if (should_set_a11y_focus_fail_)
SetFailIgnored(fail) == FALSE
SetFocusFails(fail) == fail

\* SetA11yFocus without failure: UpdateA11yFocus, the on-focus-updated
\* callback if there is one, then callback(true)
CompletionFirst(stored, handed, has_callback) ==
    <<Stored(stored), Completion(TRUE)>>
        \o (IF has_callback THEN <<FocusUpdated(handed)>> ELSE <<>>)
SetFocusTrace(stored, handed, has_callback) ==
    <<Stored(stored)>>
        \o (IF has_callback THEN <<FocusUpdated(handed)>> ELSE <<>>)
        \o <<Completion(TRUE)>>

\* a mock as a test starts with it: flags clear, no focus, with or without an
\* on-focus-updated callback
MockInit ==
    /\ a11y_focus_info = NoFocus
    /\ get_a11y_focus_called = FALSE
    /\ set_a11y_focus_called = FALSE
    /\ update_highlights_called = FALSE
    /\ should_get_a11y_focus_fail = FALSE
    /\ should_set_a11y_focus_fail = FALSE
    /\ on_a11y_focus_updated_callback \in BOOLEAN
    /\ mock_last = NoOperation
    /\ called_since_reset = {}
    /\ last_set_focus = NoFocus

\* GetA11yFocus()
MockGetA11yFocus ==
    /\ get_a11y_focus_called' = TRUE
    /\ mock_last' = Operation("GetA11yFocus", 0, 0, <<>>,
                              GetA11yFocusResult(should_get_a11y_focus_fail,
                                                 a11y_focus_info))
    /\ called_since_reset' = called_since_reset \cup {"GetA11yFocus"}
    /\ UNCHANGED <<a11y_focus_info, set_a11y_focus_called, update_highlights_called,
                   should_get_a11y_focus_fail, should_set_a11y_focus_fail,
                   on_a11y_focus_updated_callback, last_set_focus>>
    /\ UNCHANGED notMockVars

\* SetA11yFocus(koid, node_id, callback)
MockSetA11yFocus ==
    /\ \E koid \in Koids, node_id \in NodeIds :
         /\ set_a11y_focus_called' = TRUE
         /\ IF SetFocusFails(should_set_a11y_focus_fail)
              THEN /\ mock_last' = Operation("SetA11yFocus", koid, node_id,
                                             <<Completion(FALSE)>>, NoFocus)
                   /\ called_since_reset' = called_since_reset \cup {"SetA11yFocus"}
                   /\ last_set_focus' = NoFocus
                   /\ UNCHANGED <<a11y_focus_info, get_a11y_focus_called>>
              ELSE LET stored == A11yFocusInfo(koid, node_id)
                       handed == GetA11yFocusResult(should_get_a11y_focus_fail, stored)
                   IN  /\ a11y_focus_info' = stored
                       /\ get_a11y_focus_called' =
                             IF on_a11y_focus_updated_callback
                               THEN TRUE
                               ELSE get_a11y_focus_called
                       /\ called_since_reset' =
                             called_since_reset \cup {"SetA11yFocus"}
                               \cup (IF on_a11y_focus_updated_callback
                                       THEN {"GetA11yFocus"}
                                       ELSE {})
                       /\ mock_last' =
                             Operation("SetA11yFocus", koid, node_id,
                                       SetFocusTrace(stored, handed,
                                                     on_a11y_focus_updated_callback),
                                       NoFocus)
                       /\ last_set_focus' = stored
    /\ UNCHANGED <<update_highlights_called, should_get_a11y_focus_fail,
                   should_set_a11y_focus_fail, on_a11y_focus_updated_callback>>
    /\ UNCHANGED notMockVars

\* ClearA11yFocus(): a11y_focus_info_.reset()
MockClearA11yFocus ==
    /\ a11y_focus_info' = NoFocus
    /\ last_set_focus' = NoFocus
    /\ mock_last' = Operation("ClearA11yFocus", 0, 0, <<>>, NoFocus)
    /\ UNCHANGED <<get_a11y_focus_called, set_a11y_focus_called,
                   update_highlights_called, should_get_a11y_focus_fail,
                   should_set_a11y_focus_fail, on_a11y_focus_updated_callback,
                   called_since_reset>>
    /\ UNCHANGED notMockVars

\* UpdateHighlights(koid, node_id)
MockUpdateHighlights ==
    /\ \E koid \in Koids, node_id \in NodeIds :
         mock_last' = Operation("UpdateHighlights", koid, node_id, <<>>, NoFocus)
    /\ update_highlights_called' = TRUE
    /\ called_since_reset' = called_since_reset \cup {"UpdateHighlights"}
    /\ UNCHANGED <<a11y_focus_info, get_a11y_focus_called, set_a11y_focus_called,
                   should_get_a11y_focus_fail, should_set_a11y_focus_fail,
                   on_a11y_focus_updated_callback, last_set_focus>>
    /\ UNCHANGED notMockVars

\* set_should_get_a11y_focus_fail(value)
MockSetShouldGetFail ==
    /\ \E value \in BOOLEAN :
         /\ should_get_a11y_focus_fail' = value
         /\ mock_last' = Operation("set_should_get_a11y_focus_fail", 0, 0, <<>>, NoFocus)
    /\ UNCHANGED <<a11y_focus_info, get_a11y_focus_called, set_a11y_focus_called,
                   update_highlights_called, should_set_a11y_focus_fail,
                   on_a11y_focus_updated_callback, called_since_reset, last_set_focus>>
    /\ UNCHANGED notMockVars

\* set_should_set_a11y_focus_fail(value)
MockSetShouldSetFail ==
    /\ \E value \in BOOLEAN :
         /\ should_set_a11y_focus_fail' = value
         /\ mock_last' = Operation("set_should_set_a11y_focus_fail", 0, 0, <<>>, NoFocus)
    /\ UNCHANGED <<a11y_focus_info, get_a11y_focus_called, set_a11y_focus_called,
                   update_highlights_called, should_get_a11y_focus_fail,
                   on_a11y_focus_updated_callback, called_since_reset, last_set_focus>>
    /\ UNCHANGED notMockVars

\* UpdateA11yFocus(koid, node_id): a11y_focus_info_.emplace(...)
MockUpdateA11yFocus ==
    /\ \E koid \in Koids, node_id \in NodeIds :
         /\ a11y_focus_info' = A11yFocusInfo(koid, node_id)
         /\ mock_last' = Operation("UpdateA11yFocus", koid, node_id, <<>>, NoFocus)
    /\ last_set_focus' = NoFocus
    /\ UNCHANGED <<get_a11y_focus_called, set_a11y_focus_called,
                   update_highlights_called, should_get_a11y_focus_fail,
                   should_set_a11y_focus_fail, on_a11y_focus_updated_callback,
                   called_since_reset>>
    /\ UNCHANGED notMockVars

\* ResetExpectations()
MockResetExpectations ==
    /\ get_a11y_focus_called' = FALSE
    /\ set_a11y_focus_called' = FALSE
    /\ called_since_reset' = {}
    /\ mock_last' = Operation("ResetExpectations", 0, 0, <<>>, NoFocus)
    /\ UNCHANGED <<a11y_focus_info, update_highlights_called, should_get_a11y_focus_fail,
                   should_set_a11y_focus_fail, on_a11y_focus_updated_callback,
                   last_set_focus>>
    /\ UNCHANGED notMockVars

MockIdle ==
    /\ a11y_focus_info = NoFocus
    /\ get_a11y_focus_called = FALSE
    /\ set_a11y_focus_called = FALSE
    /\ update_highlights_called = FALSE
    /\ should_get_a11y_focus_fail = FALSE
    /\ should_set_a11y_focus_fail = FALSE
    /\ on_a11y_focus_updated_callback = FALSE
    /\ mock_last = NoOperation
    /\ called_since_reset = {}
    /\ last_set_focus = NoFocus

(***************************************************************************)
(* The LNCF packing loops of InitCacheConfig and InitCacheConfigGen12       *)
(***************************************************************************)
\* A uint16_t entry is the set of the positions (0..15) of its 1 bits, a
\* uint32_t word the set of the positions (0..31) of its 1 bits.
EntryBits == 0..15

\* the entry values tried at one index of the table
TestEntries == {{}, {0}, {15}, 0..14, 0..15}

\* the tables packed: entry j holds the number j, except for one entry that
\* holds a test value
PackTables ==
    {[j \in TableIndices |-> IF j = p THEN v ELSE BitsOf(j, 16)] :
        p \in TableIndices, v \in TestEntries}

PackFunctions == {"InitCacheConfig", "InitCacheConfigGen12"}

\* a uint16_t widened to 32 bits: uint32_t entry = lncf_mocs[i + 1], and the
\* integral promotion of a uint16_t operand
SignExtend(e) ==
    {b \in RegisterBits : b \in e} \cup (IF 15 \in e THEN 16..31 ELSE {})
Widen(e) == {b \in RegisterBits : b \in EntryBits /\ b \in e}

\* w << n in 32 bits
ShiftLeft(w, n) == {b + n : b \in {x \in w : x + n \in RegisterBits}}

\* InitCacheConfig: entry = lncf_mocs[i + 1]; entry = (entry << 16) | lncf_mocs[i]
PackEntry(hi, lo) == ShiftLeft(Widen(hi), 16) \cup Widen(lo)

\* InitCacheConfigGen12: entry = (lncf_mocs[i + 1] << 16) | lncf_mocs[i]
PackEntryGen12(hi, lo) == ShiftLeft(Widen(hi), 16) \cup Widen(lo)

\* lncf_mocs[idx]: an index at or past the end reads whatever is there
ReadEntry(idx) ==
    IF idx \in DOMAIN lncf_mocs THEN {lncf_mocs[idx]} ELSE TestEntries

PackInit ==
    /\ pk_fn = "none"
    /\ pk_pc = "idle"
    /\ lncf_mocs \in PackTables
    /\ pk_i = 0
    /\ lncf_mocs_32 = <<>>
    /\ pk_reads = {}

\* one of the two functions reaches its packing loop: lncf_mocs_32 is empty,
\* i = 0
PackEnter ==
    /\ pk_pc = "idle"
    /\ \E fn \in PackFunctions : pk_fn' = fn
    /\ pk_pc' = "loop"
    /\ pk_i' = 0
    /\ lncf_mocs_32' = <<>>
    /\ pk_reads' = {}
    /\ UNCHANGED lncf_mocs
    /\ UNCHANGED notPackVars

\* one iteration: i < lncf_mocs.size(); push_back(entry); i += 2
PackIterate ==
    /\ pk_pc = "loop"
    /\ pk_i < kMemoryObjectControlStateEntries
    /\ \E hi \in ReadEntry(pk_i + 1), lo \in ReadEntry(pk_i) :
         lncf_mocs_32' =
            Append(lncf_mocs_32,
                   IF pk_fn = "InitCacheConfig"
                     THEN PackEntry(hi, lo)
                     ELSE PackEntryGen12(hi, lo))
    /\ pk_reads' = pk_reads \cup {pk_i + 1, pk_i}
    /\ pk_i' = pk_i + 2
    /\ UNCHANGED <<pk_fn, pk_pc, lncf_mocs>>
    /\ UNCHANGED notPackVars

\* the loop ends: the words are written out
PackExit ==
    /\ pk_pc = "loop"
    /\ ~(pk_i < kMemoryObjectControlStateEntries)
    /\ pk_pc' = "done"
    /\ UNCHANGED <<pk_fn, lncf_mocs, pk_i, lncf_mocs_32, pk_reads>>
    /\ UNCHANGED notPackVars

\* the function returned; the other one may pack the same table
PackAgain ==
    /\ pk_pc = "done"
    /\ pk_pc' = "idle"
    /\ pk_fn' = "none"
    /\ pk_i' = 0
    /\ lncf_mocs_32' = <<>>
    /\ pk_reads' = {}
    /\ UNCHANGED lncf_mocs
    /\ UNCHANGED notPackVars

PackIdle ==
    /\ pk_fn = "none"
    /\ pk_pc = "idle"
    /\ lncf_mocs = <<>>
    /\ pk_i = 0
    /\ lncf_mocs_32 = <<>>
    /\ pk_reads = {}

(***************************************************************************)
(* TranscoderClockSelect (intel-i915-tgl/registers-transcoder.h)            *)
(***************************************************************************)
\* DEF_FIELD(31, 28, ddi_clock_select_subtle)
ddi_clock_select_subtle(v) == GetField(v, 31, 28)
set_ddi_clock_select_subtle(v, x) == SetField(v, 31, 28, x)

\* RawDdiClockSelect(ddi)
RawDdiClockSelect(ddi) ==
    IF ~ddi.has_value
      THEN 0
      ELSE LET ddi_index == ToInt8(ddi.value - DDI_A)
           IN  ToInt8(ddi_index + 1)

\* ddi_clock_kaby_lake()
ddi_clock_kaby_lake(v) ==
    LET ddi_clock_select_raw_value == ToInt8(ddi_clock_select_subtle(v) \div 2)
    IN  IF ddi_clock_select_raw_value = 0
          THEN NullOpt
          ELSE Some(ddi_clock_select_raw_value - 1)

\* ddi_clock_tiger_lake()
ddi_clock_tiger_lake(v) ==
    LET ddi_select_raw_value == ToInt8(ddi_clock_select_subtle(v))
    IN  IF ddi_select_raw_value = 0
          THEN NullOpt
          ELSE Some(ddi_select_raw_value - 1)

\* set_ddi_clock_kaby_lake(): reserved_bit = (ddi_clock_select_subtle() & 1)
ReservedBitDropped(field) == 0
ReservedBit(field) == field % 2

\* set_ddi_clock_kaby_lake(): (ddi_select_raw << 1) | reserved_bit; the left
\* operand is even, so the bitwise or adds the bit
set_ddi_clock_kaby_lake(v, ddi) ==
    LET ddi_select_raw == RawDdiClockSelect(ddi)
        reserved_bit == ReservedBit(ddi_clock_select_subtle(v))
    IN  set_ddi_clock_select_subtle(v, (ddi_select_raw * 2) + reserved_bit)

\* set_ddi_clock_tiger_lake()
set_ddi_clock_tiger_lake(v, ddi) ==
    set_ddi_clock_select_subtle(v, RawDdiClockSelect(ddi))

\* the register values a TranscoderClockSelect object starts from: any value
\* of the field, the bits below it set or clear
InitialClockSelects == {f \cup o : f \in SUBSET (28..31), o \in {{}, {0, 27}}}

ClockInit ==
    /\ clk_sel \in InitialClockSelects
    /\ clk_last = NoCall

ClockIdle ==
    /\ clk_sel = {}
    /\ clk_last = NoCall

\* reg.set_ddi_clock_kaby_lake(ddi); the ZX_DEBUG_ASSERT on DDI A stops a
\* debug build and is compiled out of a release build
SetDdiClockKabyLake ==
    /\ \E ddi \in OptionalDdis(KabyLakeDdis), debug \in BOOLEAN :
         IF debug /\ ddi.has_value /\ ddi.value = DDI_A
           THEN /\ clk_last' = [kind |-> "assert", gen |-> "kaby_lake", ddi |-> ddi,
                                before |-> clk_sel]
                /\ UNCHANGED clk_sel
           ELSE /\ clk_last' = [kind |-> "set", gen |-> "kaby_lake", ddi |-> ddi,
                                before |-> clk_sel]
                /\ clk_sel' = set_ddi_clock_kaby_lake(clk_sel, ddi)
    /\ UNCHANGED notClockVars

\* reg.set_ddi_clock_tiger_lake(ddi)
SetDdiClockTigerLake ==
    /\ \E ddi \in OptionalDdis(TigerLakeDdis) :
         /\ clk_last' = [kind |-> "set", gen |-> "tiger_lake", ddi |-> ddi,
                         before |-> clk_sel]
         /\ clk_sel' = set_ddi_clock_tiger_lake(clk_sel, ddi)
    /\ UNCHANGED notClockVars

(***************************************************************************)
(* Specifications                                                           *)
(***************************************************************************)
VmoIdle ==
    /\ start = 0
    /\ length = 0
    /\ offset = 0
    /\ offset0 = 0
    /\ pc = "idle"
    /\ vector = <<>>
    /\ i = 0
    /\ total = 0
    /\ status = ZX_OK
    /\ out_written = FALSE
    /\ out_actual = 0
    /\ entry_offset = 0
    /\ calls = <<>>

\* the sequences of zxio_vmo_do_vector calls on one file
Init ==
    /\ VmoInit
    /\ AdaptorInit
    /\ VmoInitIdle
    /\ TransIdle
    /\ CacheInit
    /\ NodeinfoInit
    /\ Av400Init
    /\ MockIdle
    /\ PackIdle
    /\ ClockIdle

Next ==
    \/ VmoDoVectorReject
    \/ VmoDoVectorEnter
    \/ DoVectorSkip
    \/ DoVectorInvoke
    \/ DoVectorFinish
    \/ VmoReturn

Spec == Init /\ [][Next]_vars

\* backend objects and the calls made through their ops tables
InitAdaptor ==
    /\ VmoIdle
    /\ AdaptorInit
    /\ VmoInitIdle
    /\ TransIdle
    /\ CacheInit
    /\ NodeinfoInit
    /\ Av400Init
    /\ MockIdle
    /\ PackIdle
    /\ ClockIdle

NextAdaptor ==
    \/ Construct
    \/ AdaptorFrom

SpecAdaptor == InitAdaptor /\ [][NextAdaptor]_vars

\* a VMO handed to zxio_vmo_init
InitVmoInit ==
    /\ VmoIdle
    /\ AdaptorInit
    /\ VmoInitInit
    /\ TransIdle
    /\ CacheInit
    /\ NodeinfoInit
    /\ Av400Init
    /\ MockIdle
    /\ PackIdle
    /\ ClockIdle

NextVmoInit ==
    \/ VmoSetSize
    \/ ZxioVmoInit

SpecVmoInit == InitVmoInit /\ [][NextVmoInit]_vars

\* a TranscoderDdiControl register object and the address getters
InitTrans ==
    /\ VmoIdle
    /\ AdaptorInit
    /\ VmoInitIdle
    /\ TransInit
    /\ CacheInit
    /\ NodeinfoInit
    /\ Av400Init
    /\ MockIdle
    /\ PackIdle
    /\ ClockIdle

NextTrans ==
    \/ SetDdiKabyLake
    \/ SetDdiTigerLake
    \/ QueryAddress

SpecTrans == InitTrans /\ [][NextTrans]_vars

\* the CacheConfig table builders
InitCache ==
    /\ VmoIdle
    /\ AdaptorInit
    /\ VmoInitIdle
    /\ TransIdle
    /\ CacheInit
    /\ NodeinfoInit
    /\ Av400Init
    /\ MockIdle
    /\ PackIdle
    /\ ClockIdle

NextCache ==
    \/ CacheCall
    \/ CacheWriteHead
    \/ CacheWriteLoop
    \/ CacheReturn
    \/ CacheNext

SpecCache == InitCache /\ [][NextCache]_vars

\* calls of zxio_with_nodeinfo
InitNodeinfo ==
    /\ VmoIdle
    /\ AdaptorInit
    /\ VmoInitIdle
    /\ TransIdle
    /\ CacheInit
    /\ NodeinfoInit
    /\ Av400Init
    /\ MockIdle
    /\ PackIdle
    /\ ClockIdle

NextNodeinfo ==
    \/ NodeinfoDescribe
    \/ NodeinfoReturnStatus
    \/ NodeinfoInvokeFn
    \/ NodeinfoNext

SpecNodeinfo == InitNodeinfo /\ [][NextNodeinfo]_vars

\* the av400 board driver: bind, init hook and start thread
InitAv400 ==
    /\ VmoIdle
    /\ AdaptorInit
    /\ VmoInitIdle
    /\ TransIdle
    /\ CacheInit
    /\ NodeinfoInit
    /\ Av400Init
    /\ MockIdle
    /\ PackIdle
    /\ ClockIdle

NextAv400 ==
    \/ Av400Create
    \/ DdkInitStore
    \/ DdkInitThrdCreate
    \/ DdkInitReplyInternal
    \/ DdkInitReturn
    \/ ThreadRunStep
    \/ ThreadFinish

SpecAv400 == InitAv400 /\ [][NextAv400]_vars

\* a MockA11yFocusManager and the calls a test makes on it
InitMock ==
    /\ VmoIdle
    /\ AdaptorInit
    /\ VmoInitIdle
    /\ TransIdle
    /\ CacheInit
    /\ NodeinfoInit
    /\ Av400Init
    /\ MockInit
    /\ PackIdle
    /\ ClockIdle

NextMock ==
    \/ MockGetA11yFocus
    \/ MockSetA11yFocus
    \/ MockClearA11yFocus
    \/ MockUpdateHighlights
    \/ MockSetShouldGetFail
    \/ MockSetShouldSetFail
    \/ MockUpdateA11yFocus
    \/ MockResetExpectations

SpecMock == InitMock /\ [][NextMock]_vars

\* a TranscoderClockSelect register object
InitClock ==
    /\ VmoIdle
    /\ AdaptorInit
    /\ VmoInitIdle
    /\ TransIdle
    /\ CacheInit
    /\ NodeinfoInit
    /\ Av400Init
    /\ MockIdle
    /\ PackIdle
    /\ ClockInit

NextClock ==
    \/ SetDdiClockKabyLake
    \/ SetDdiClockTigerLake

SpecClock == InitClock /\ [][NextClock]_vars

\* the LNCF packing loops
InitPack ==
    /\ VmoIdle
    /\ AdaptorInit
    /\ VmoInitIdle
    /\ TransIdle
    /\ CacheInit
    /\ NodeinfoInit
    /\ Av400Init
    /\ MockIdle
    /\ PackInit
    /\ ClockIdle

NextPack ==
    \/ PackEnter
    \/ PackIterate
    \/ PackExit
    \/ PackAgain

SpecPack == InitPack /\ [][NextPack]_vars

(***************************************************************************)
(* Properties of zxio_vmo_do_vector (checked under Spec)                    *)
(***************************************************************************)
\* the bytes moved by the invocations of fn logged so far
RECURSIVE MovedBy(_)
MovedBy(cs) == IF cs = <<>> THEN 0 ELSE Head(cs).capacity + MovedBy(Tail(cs))

\* the entries of the vector before position n that have a nonzero length
NonZeroBefore(n) == {k \in DOMAIN vector : k < n /\ vector[k] # 0}

\* C1: a call entered with *offset > length returns ZX_ERR_INVALID_ARGS, has
\* invoked fn for no entry of the vector, and leaves *offset as it was.
C1_RejectsOffsetBeyondLength ==
    (pc = "done" /\ entry_offset > length) =>
        /\ status = ZX_ERR_INVALID_ARGS
        /\ calls = <<>>
        /\ offset = entry_offset

C1_Witness ==
    /\ pc = "done"
    /\ entry_offset > length
    /\ Len(vector) = 2
    /\ vector[1] > 0
    /\ length > 0

\* C2: in a call entered with *offset <= length, every invocation of fn gets
\* the capacity min(requested capacity of its entry, length - current offset)
\* and the position start + current offset.
C2_ClippedCapacityAndPosition ==
    entry_offset <= length =>
        \A k \in DOMAIN calls :
            /\ calls[k].requested = vector[calls[k].idx]
            /\ calls[k].capacity =
                   Min(vector[calls[k].idx], length - calls[k].offset_before)
            /\ calls[k].position = start + calls[k].offset_before

C2_Witness ==
    /\ entry_offset <= length
    /\ start > 0
    /\ Len(calls) = 2
    /\ calls[1].capacity = calls[1].requested
    /\ calls[2].capacity < calls[2].requested
    /\ calls[2].capacity > 0

\* C3: when the initial offset is within 0..length, the offset is within
\* 0..length in every reachable state, also between the entries of one call,
\* and length - offset is never taken with offset > length.
C3_OffsetWithinLength ==
    offset0 <= length =>
        /\ 0 <= offset
        /\ offset <= length
        /\ \A k \in DOMAIN calls : calls[k].offset_before <= length

C3_Witness ==
    /\ offset0 < length
    /\ pc = "loop"
    /\ i <= Len(vector)
    /\ Len(calls) >= 1
    /\ calls[Len(calls)].fn_status = ZX_OK
    /\ offset = length
    /\ entry_offset > offset0

\* C4: a successful invocation of fn advances *offset by the clipped capacity,
\* a failing one leaves it alone, and after a successful call *offset is the
\* offset at entry plus *out_actual.
C4_OffsetAdvancesByBytesMoved ==
    /\ \A k \in DOMAIN calls :
          IF calls[k].fn_status = ZX_OK
            THEN calls[k].offset_after = calls[k].offset_before + calls[k].capacity
            ELSE calls[k].offset_after = calls[k].offset_before
    /\ (pc = "done" /\ status = ZX_OK) =>
          /\ out_written
          /\ offset = entry_offset + out_actual

C4_Witness ==
    /\ Len(calls) = 2
    /\ calls[1].fn_status = ZX_OK
    /\ calls[1].capacity > 0
    /\ calls[2].fn_status # ZX_OK
    /\ calls[2].capacity > 0
    /\ offset = entry_offset + calls[1].capacity

\* C5: a successful transfer reports the sum of the bytes moved by its
\* entries, and an entry that moves less than it asked for is the last one
\* handed to fn: the call returns success with the partial total.
C5_TotalIsSumAndStopsAtShortEntry ==
    /\ (pc = "done" /\ status = ZX_OK) =>
          /\ out_written
          /\ out_actual = MovedBy(calls)
    /\ \A k \in DOMAIN calls :
          (calls[k].fn_status = ZX_OK /\ calls[k].capacity < calls[k].requested) =>
              /\ k = Len(calls)
              /\ pc = "done"
              /\ status = ZX_OK
              /\ out_actual = MovedBy(calls)

C5_Witness ==
    /\ pc = "done"
    /\ status = ZX_OK
    /\ Len(vector) = 3
    /\ vector[3] > 0
    /\ Len(calls) = 2
    /\ calls[2].idx = 2
    /\ calls[2].capacity < calls[2].requested
    /\ calls[2].capacity > 0
    /\ out_actual = calls[1].capacity + calls[2].capacity

\* C6: when fn reports an error on an entry, no later entry is processed, the
\* call returns that error, and the total of the entries before it is kept.
C6_ErrorStopsAndPropagates ==
    \A k \in DOMAIN calls :
        calls[k].fn_status # ZX_OK =>
            /\ k = Len(calls)
            /\ pc = "done"
            /\ status = calls[k].fn_status
            /\ out_written
            /\ out_actual = MovedBy(SubSeq(calls, 1, k - 1))
            /\ offset = calls[k].offset_before

C6_Witness ==
    /\ pc = "done"
    /\ Len(vector) = 3
    /\ vector[3] > 0
    /\ Len(calls) = 2
    /\ calls[2].idx = 2
    /\ calls[2].fn_status = "ZX_ERR_BAD_STATE"
    /\ status = "ZX_ERR_BAD_STATE"
    /\ out_actual = calls[1].capacity
    /\ out_actual > 0

\* C7: fn is never invoked for an entry of length zero, such an entry does not
\* end the iteration, and an empty vector gives success with a total of zero
\* and no invocation of fn.
C7_ZeroLengthSkippedEmptyVectorOk ==
    /\ \A k \in DOMAIN calls : vector[calls[k].idx] # 0
    /\ pc = "loop" => Len(calls) = Cardinality(NonZeroBefore(i))
    /\ (pc = "done" /\ vector = <<>> /\ entry_offset <= length) =>
          /\ status = ZX_OK
          /\ out_written
          /\ out_actual = 0
          /\ calls = <<>>

C7_Witness ==
    /\ pc = "done"
    /\ status = ZX_OK
    /\ Len(vector) = 3
    /\ vector[1] = 0
    /\ vector[2] > 0
    /\ vector[3] = 0
    /\ Len(calls) = 1
    /\ calls[1].idx = 2
    /\ calls[1].capacity = vector[2]
    /\ i = 4

\* C8: a single-buffer read of n bytes with the cursor o <= length, when the
\* primitive succeeds, returns success with min(n, length - o) bytes and
\* advances the cursor by as much; at o = length it returns 0 bytes with
\* success and the cursor stays.
C8_SingleBufferRead ==
    (/\ pc = "done"
     /\ Len(vector) = 1
     /\ entry_offset <= length
     /\ \A k \in DOMAIN calls : calls[k].fn_status = ZX_OK) =>
        /\ status = ZX_OK
        /\ out_written
        /\ out_actual = Min(vector[1], length - entry_offset)
        /\ offset = entry_offset + Min(vector[1], length - entry_offset)

C8_Witness ==
    /\ pc = "done"
    /\ Len(vector) = 1
    /\ vector[1] > 0
    /\ length > 0
    /\ entry_offset = length
    /\ Len(calls) = 1
    /\ calls[1].fn_status = ZX_OK
    /\ status = ZX_OK
    /\ out_actual = 0
    /\ offset = length

(***************************************************************************)
(* Properties of HasIo::Adaptor<T> (checked under SpecAdaptor)              *)
(***************************************************************************)
\* C9: a call of the ops-table entry From<Op>(io, args...) invokes Op exactly
\* once, on the T instance at the address io, with args unchanged and in
\* order, returns the status Op returns, and changes nothing else.
C9_FromForwardsOnce ==
    [][from_count' = from_count + 1 =>
          /\ invocation_count' = invocation_count + 1
          /\ last_invocation'.instance = [addr |-> req'.io, type |-> req'.type]
          /\ last_invocation'.op = req'.op
          /\ last_invocation'.args = req'.args
          /\ ret' = req'.op_status
          /\ objects' = objects
          /\ vmoVars' = vmoVars]_vars

C9_Witness ==
    /\ from_count = 2
    /\ invocation_count = 2
    /\ req.op = "Release"
    /\ Len(req.args) = 2
    /\ req.args[1] # req.args[2]
    /\ last_invocation.args = req.args
    /\ ret = "ZX_ERR_PEER_CLOSED"

\* C10: every T that Adaptor<T> accepts has its header at offset 0, fits in
\* zxio_storage_t and has no vtable pointer, so the header pointer and the
\* pointer to the object are the same address.
C10_HeaderAtOffsetZero ==
    \A s \in Slots :
        objects[s] # NoObject =>
            /\ objects[s].io = objects[s].base
            /\ SizeOf(objects[s].type) <= StorageSize
            /\ ~objects[s].type.polymorphic

(***************************************************************************)
(* Properties of zxio_vmo_init (checked under SpecVmoInit)                  *)
(***************************************************************************)
\* C11: a file initialized by zxio_vmo_init has the size the kernel reports
\* for the VMO, and that size is a multiple of the page size.
C11_FileSizeIsVmoSize ==
    file_init =>
        /\ vmo_init_status = ZX_OK
        /\ file_size = vmo_size
        /\ file_size % PageSize = 0

C11_Witness ==
    /\ file_init
    /\ vmo_requested % PageSize # 0
    /\ vmo_requested > PageSize
    /\ file_size > vmo_requested

(***************************************************************************)
(* Properties of the transcoder registers (checked under SpecTrans)         *)
(***************************************************************************)
\* C12: for TRANS_A..TRANS_C and each of the seven register types, the Tiger
\* Lake and the Kaby Lake getter give the same MMIO address, which is also the
\* address TranscoderRegs gives.
C12_SameAddressOnBothGenerations ==
    (addr_query.kind = "query" /\ addr_query.transcoder \in TRANS_A..TRANS_C) =>
        /\ ~addr_query.kaby_lake.asserted
        /\ ~addr_query.tiger_lake.asserted
        /\ addr_query.kaby_lake.addr = addr_query.tiger_lake.addr
        /\ addr_query.regs.addr = addr_query.tiger_lake.addr

C12_Witness ==
    /\ addr_query.kind = "query"
    /\ addr_query.reg = "TranscoderMainStreamAttributeMisc"
    /\ addr_query.transcoder = TRANS_C
    /\ addr_query.tiger_lake.addr = 402448
    /\ addr_query.regs.addr = 402448

\* the selections each generation's setter accepts, and the value each puts
\* in bits 30-27
KabyLakeSelections == OptionalDdis(KabyLakeDdis \ {DDI_A})
TigerLakeSelections == OptionalDdis(TigerLakeDdis)
KabyLakeFieldOf(sel) == ddi_select_subtle(set_ddi_kaby_lake({}, sel))
TigerLakeFieldOf(sel) == ddi_select_subtle(set_ddi_tiger_lake({}, sel))
FieldValues == 0..15
KabyLakeReadBack(f) ==
    {sel \in KabyLakeSelections : ddi_kaby_lake(set_ddi_select_subtle({}, f)) = sel}
TigerLakeReadBack(f) ==
    {sel \in TigerLakeSelections : ddi_tiger_lake(set_ddi_select_subtle({}, f)) = sel}

\* C15: after set_ddi_kaby_lake(d), ddi_kaby_lake() is d (d nullopt or a
\* Kaby Lake DDI other than DDI A); after set_ddi_tiger_lake(d),
\* ddi_tiger_lake() is d; in each encoding distinct selections give distinct
\* values of bits 30-27, and every value of bits 30-27 reads back as at most
\* one selection.
C15_DdiSelectionRoundTrip ==
    /\ (/\ last_set.kind = "set"
        /\ last_set.gen = "kaby_lake"
        /\ last_set.ddi \in KabyLakeSelections) =>
            /\ ddi_kaby_lake(ddi_ctl) = last_set.ddi
            /\ ddi_select_subtle(ddi_ctl) = KabyLakeFieldOf(last_set.ddi)
    /\ (last_set.kind = "set" /\ last_set.gen = "tiger_lake") =>
            /\ ddi_tiger_lake(ddi_ctl) = last_set.ddi
            /\ ddi_select_subtle(ddi_ctl) = TigerLakeFieldOf(last_set.ddi)
    /\ \A a, b \in KabyLakeSelections :
            a # b => KabyLakeFieldOf(a) # KabyLakeFieldOf(b)
    /\ \A a, b \in TigerLakeSelections :
            a # b => TigerLakeFieldOf(a) # TigerLakeFieldOf(b)
    /\ \A f \in FieldValues :
            /\ Cardinality(KabyLakeReadBack(f)) <= 1
            /\ Cardinality(TigerLakeReadBack(f)) <= 1
    /\ \A sel \in KabyLakeSelections : sel \in KabyLakeReadBack(KabyLakeFieldOf(sel))
    /\ \A sel \in TigerLakeSelections : sel \in TigerLakeReadBack(TigerLakeFieldOf(sel))

C15_Witness ==
    /\ last_set.kind = "set"
    /\ last_set.gen = "kaby_lake"
    /\ last_set.ddi = Some(DDI_E)
    /\ ddi_select_subtle(ddi_ctl) = 8
    /\ 31 \in ddi_ctl
    /\ 26 \in ddi_ctl

(***************************************************************************)
(* Properties of the CacheConfig tables (checked under SpecCache)           *)
(***************************************************************************)
BuiltBy(fn) == cc_pc = "done" /\ cc_fn = fn

HasAllEntries ==
    /\ DOMAIN cc_mocs = TableIndices
    /\ Cardinality(DOMAIN cc_mocs) = kMemoryObjectControlStateEntries

\* C13: the graphics MOCS table has kMemoryObjectControlStateEntries entries;
\* index 0 is uncached, index 1 uses the page-table settings, index 2 is
\* write-back, every other index is uncached.
C13_GraphicsMocsMesaConvention ==
    BuiltBy("GetMemoryObjectControlState") =>
        /\ HasAllEntries
        /\ cc_mocs[0].cacheability = "UNCACHED"
        /\ cc_mocs[1].cacheability = "PAGETABLE"
        /\ cc_mocs[2].cacheability = "WRITEBACK"
        /\ \A k \in TableIndices : k > 2 => cc_mocs[k].cacheability = "UNCACHED"

C13_Witness ==
    /\ BuiltBy("GetMemoryObjectControlState")
    /\ cc_index = kMemoryObjectControlStateEntries
    /\ cc_mocs[1] = Format("PAGETABLE", "LLC_ELLC", "LRU_3")
    /\ cc_mocs[61] = Format("UNCACHED", "LLC_ELLC", "LRU_0")

\* C14: the LNCF MOCS table follows the convention stated at its head: index 0
\* is uncached, index 1 uses the page-table settings, index 2 is cached, every
\* other index is uncached.
C14_LncfMocsMesaConvention ==
    BuiltBy("GetLncfMemoryObjectControlState") =>
        /\ cc_mocs[0].cacheability = "UNCACHED"
        /\ cc_mocs[1].cacheability = "PAGETABLE"
        /\ cc_mocs[2].cacheability = "WRITEBACK"
        /\ \A k \in TableIndices : k > 2 => cc_mocs[k].cacheability = "UNCACHED"

\* C20: the Gen12 global table is cached (write-back, LLC, LRU_3) exactly at
\* 2, 48 and 60 and uncached elsewhere; the Gen12 LNCF table is write-back
\* exactly at 2 and 48 and uncached elsewhere; both have
\* kMemoryObjectControlStateEntries entries.
C20_Gen12Tables ==
    /\ BuiltBy("GetMemoryObjectControlStateGen12") =>
          /\ HasAllEntries
          /\ \A k \in TableIndices :
                IF k \in {2, 48, 60}
                  THEN cc_mocs[k] = Format("WRITEBACK", "LLC", "LRU_3")
                  ELSE cc_mocs[k].cacheability = "UNCACHED"
    /\ BuiltBy("GetLncfMemoryObjectControlStateGen12") =>
          /\ HasAllEntries
          /\ \A k \in TableIndices :
                IF k \in {2, 48}
                  THEN cc_mocs[k].cacheability = "WRITEBACK"
                  ELSE cc_mocs[k].cacheability = "UNCACHED"

C20_Witness ==
    /\ BuiltBy("GetMemoryObjectControlStateGen12")
    /\ cc_mocs[60] = kCached
    /\ cc_mocs[48] = kCached
    /\ cc_mocs[3] = kUncached
    /\ cc_mocs[61] = kUncached

(***************************************************************************)
(* Properties of zxio_with_nodeinfo (checked under SpecNodeinfo)            *)
(***************************************************************************)
\* C16: fn is invoked at most once and only after DescribeDeprecated
\* succeeded; when it fails the call returns the transport status without
\* invoking fn, otherwise it returns the status fn returns and the node
\* channel has moved into fn.
C16_FnOnlyAfterDescribe ==
    /\ ni_fn_calls <= 1
    /\ ni_fn_calls = 1 => ni_describe.ok
    /\ (ni_pc = "done" /\ ~ni_describe.ok) =>
          /\ ni_ret = ni_describe.status
          /\ ni_ret \in TransportErrors
          /\ ni_fn_calls = 0
          /\ ni_node # "fn"
    /\ (ni_pc = "done" /\ ni_describe.ok) =>
          /\ ni_fn_calls = 1
          /\ ni_ret = ni_fn_status
          /\ ni_node = "fn"

C16_Witness ==
    /\ ni_pc = "done"
    /\ ni_calls >= 2
    /\ ni_describe.ok
    /\ ni_describe.info = "directory"
    /\ ni_fn_calls = 1
    /\ ni_fn_status = "ZX_ERR_NOT_SUPPORTED"
    /\ ni_ret = "ZX_ERR_NOT_SUPPORTED"
    /\ ni_node = "fn"

(***************************************************************************)
(* Properties of the av400 board driver (checked under SpecAv400)           *)
(***************************************************************************)
\* the order C17 states
StatedOrder ==
    <<"GpioInit", "PwmInit", "ClkInit", "I2cInit", "RegistersInit", "EmmcInit",
      "SpiInit", "SdioInit", "EthInit", "RtcInit", "AudioInit", "UsbInit",
      "ThermalInit", "SysmemInit", "TeeInit", "PowerInit", "CpuInit", "DmcInit",
      "ButtonsInit", "MailboxInit", "DspInit">>

\* C17: Thread runs the init steps in the stated order, each at most once, a
\* step only if every earlier one returned ZX_OK, and none after a failure.
C17_StepsInOrderUntilFailure ==
    /\ Len(step_log) <= Len(StatedOrder)
    /\ \A k \in DOMAIN step_log :
          /\ step_log[k].step = StatedOrder[k]
          /\ k < Len(step_log) => step_log[k].status = ZX_OK
    /\ \A k \in DOMAIN step_log :
          step_log[k].status # ZX_OK => (k = Len(step_log) /\ th_pc = "returned")

C17_Witness ==
    /\ th_pc = "returned"
    /\ Len(step_log) = 12
    /\ step_log[11].step = "AudioInit"
    /\ step_log[11].status = ZX_OK
    /\ step_log[12].step = "UsbInit"
    /\ step_log[12].status = "ZX_ERR_IO"

\* C18: the init transaction is replied to at most once, never before
\* init_txn_ is stored, and exactly once when DdkInit's work has ended: with
\* ZX_ERR_INTERNAL when the thread could not be created (Thread never runs),
\* else by Thread with the status of the first failing step or with ZX_OK
\* after all steps; Thread returns the status it replied with.
C18_InitTxnRepliedOnce ==
    /\ Len(replies) <= 1
    /\ \A k \in DOMAIN replies : replies[k].txn = "stored"
    /\ th_pc # "none" => init_txn = "stored"
    /\ th_pc = "run" => replies = <<>>
    /\ (init_pc = "done" /\ th_pc = "none") =>
          /\ replies = <<[status |-> ZX_ERR_INTERNAL, by |-> "DdkInit", txn |-> "stored"]>>
          /\ step_log = <<>>
    /\ th_pc = "returned" =>
          /\ Len(replies) = 1
          /\ replies[1].by = "Thread"
          /\ replies[1].status = thread_ret
          /\ LET last == step_log[Len(step_log)]
             IN  IF last.status # ZX_OK
                   THEN /\ replies[1].status = last.status
                        /\ \A k \in 1..(Len(step_log) - 1) : step_log[k].status = ZX_OK
                   ELSE /\ Len(step_log) = Len(StatedOrder)
                        /\ replies[1].status = ZX_OK

C18_Witness ==
    /\ th_pc = "returned"
    /\ init_pc = "created"
    /\ Len(step_log) = 21
    /\ replies = <<[status |-> ZX_OK, by |-> "Thread", txn |-> "stored"]>>
    /\ thread_ret = ZX_OK

\* C19: Create releases the board object to the device manager exactly when
\* it returns ZX_OK; on each failure path it returns the stated status, no
\* device stays with the device manager, an allocated board is destroyed, and
\* DdkAdd is not attempted after a failed check.
C19_CreateOwnership ==
    cr_pc = "done" =>
        /\ (board = "released") <=> (create_ret = ZX_OK)
        /\ devmgr_device <=> (create_ret = ZX_OK)
        /\ create_ret # ZX_OK => board \in {"none", "destroyed"}
        /\ cr_env.iommu # ZX_OK =>
              (create_ret = cr_env.iommu /\ board = "none" /\ ddk_add_calls = 0)
        /\ (cr_env.iommu = ZX_OK /\ ~cr_env.alloc_ok) =>
              (create_ret = ZX_ERR_NO_MEMORY /\ board = "none" /\ ddk_add_calls = 0)
        /\ (cr_env.iommu = ZX_OK /\ cr_env.alloc_ok /\ ~cr_env.pbus_valid) =>
              (create_ret = ZX_ERR_INTERNAL /\ board = "destroyed" /\ ddk_add_calls = 0)
        /\ (cr_env.iommu = ZX_OK /\ cr_env.alloc_ok /\ cr_env.pbus_valid) =>
              /\ ddk_add_calls = 1
              /\ create_ret = cr_env.ddk_add
              /\ cr_env.ddk_add # ZX_OK => board = "destroyed"

C19_Witness ==
    /\ cr_pc = "done"
    /\ cr_env.iommu = ZX_OK
    /\ cr_env.alloc_ok
    /\ cr_env.pbus_valid
    /\ cr_env.ddk_add = "ZX_ERR_ALREADY_EXISTS"
    /\ create_ret = "ZX_ERR_ALREADY_EXISTS"
    /\ board = "destroyed"
    /\ ~devmgr_device

(***************************************************************************)
(* Order and contiguity of the primitive calls (checked under Spec)         *)
(***************************************************************************)
RECURSIVE CapacitySum(_)
CapacitySum(n) == IF n = 0 THEN 0 ELSE CapacitySum(n - 1) + calls[n].capacity

\* the calls whose bytes count towards *offset: all but a failed last one
CountedCalls ==
    IF calls # <<>> /\ calls[Len(calls)].fn_status # ZX_OK
      THEN Len(calls) - 1
      ELSE Len(calls)

\* C28: within one zxio_vmo_do_vector call the entries reach the primitive in
\* list order, the first call is at start + initial offset, each later call
\* is at the previous call's position plus the previous call's capacity, and
\* the calls that moved bytes cover [start + initial offset, start + final
\* offset) once, without a gap.
C28_ContiguousInListOrder ==
    /\ \A k \in DOMAIN calls :
          /\ vector[calls[k].idx] # 0
          /\ k > 1 =>
                /\ calls[k].idx > calls[k - 1].idx
                /\ \A j \in (calls[k - 1].idx + 1)..(calls[k].idx - 1) : vector[j] = 0
                /\ calls[k].position = calls[k - 1].position + calls[k - 1].capacity
                /\ calls[k - 1].fn_status = ZX_OK
    /\ calls # <<>> =>
          /\ calls[1].position = start + entry_offset
          /\ \A j \in 1..(calls[1].idx - 1) : vector[j] = 0
    /\ pc \in {"loop", "done"} =>
          /\ start + offset = start + entry_offset + CapacitySum(CountedCalls)
          /\ \A k \in 1..CountedCalls :
                calls[k].position + calls[k].capacity <= start + offset

C28_Witness ==
    /\ pc = "done"
    /\ status = ZX_OK
    /\ start > 0
    /\ entry_offset > 0
    /\ Len(calls) = 2
    /\ calls[1].idx = 1
    /\ calls[2].idx = 3
    /\ calls[1].capacity = 1
    /\ calls[2].capacity = 2
    /\ calls[2].position = start + entry_offset + 1
    /\ offset = entry_offset + 3

(***************************************************************************)
(* Properties of MockA11yFocusManager (checked under SpecMock)              *)
(***************************************************************************)
\* the positions in the last operation's trace of the events of one kind
EventsOf(kind) == {k \in DOMAIN mock_last.trace : mock_last.trace[k].ev = kind}

LastWasSet(failing) ==
    /\ mock_last.op = "SetA11yFocus"
    /\ mock_last.flags_before.set_fail = failing

RequestedFocus == A11yFocusInfo(mock_last.koid, mock_last.node_id)

\* C23: a SetA11yFocus configured to fail invokes the completion callback
\* exactly once, with false, leaves the stored focus as it was, does not
\* invoke the on-focus-updated callback, and records that it was called.
C23_FailedSetOnlyCompletes ==
    LastWasSet(TRUE) =>
        /\ Cardinality(EventsOf("callback")) = 1
        /\ \A k \in EventsOf("callback") : mock_last.trace[k].ok = FALSE
        /\ EventsOf("on_a11y_focus_updated") = {}
        /\ EventsOf("store") = {}
        /\ a11y_focus_info = mock_last.focus_before
        /\ set_a11y_focus_called

C23_Witness ==
    /\ LastWasSet(TRUE)
    /\ on_a11y_focus_updated_callback
    /\ ~mock_last.flags_before.set_called
    /\ a11y_focus_info.has_value
    /\ a11y_focus_info # RequestedFocus

\* C24: a SetA11yFocus(koid, node_id) not configured to fail stores
\* (koid, node_id), then invokes the on-focus-updated callback once if there
\* is one, then invokes the completion callback once with true; from then
\* until the next SetA11yFocus, UpdateA11yFocus or ClearA11yFocus a
\* GetA11yFocus not configured to fail returns (koid, node_id).
C24_SetStoresNotifiesCompletes ==
    /\ LastWasSet(FALSE) =>
          /\ EventsOf("store") = {1}
          /\ mock_last.trace[1].value = RequestedFocus
          /\ a11y_focus_info = RequestedFocus
          /\ Cardinality(EventsOf("on_a11y_focus_updated")) =
                (IF on_a11y_focus_updated_callback THEN 1 ELSE 0)
          /\ EventsOf("callback") = {Len(mock_last.trace)}
          /\ mock_last.trace[Len(mock_last.trace)].ok = TRUE
          /\ \A k \in EventsOf("on_a11y_focus_updated") :
                1 < k /\ k < Len(mock_last.trace)
    /\ last_set_focus.has_value => a11y_focus_info = last_set_focus
    /\ (/\ mock_last.op = "GetA11yFocus"
        /\ ~mock_last.flags_before.get_fail
        /\ last_set_focus.has_value) =>
            mock_last.result = last_set_focus

C24_Witness ==
    /\ mock_last.op = "GetA11yFocus"
    /\ on_a11y_focus_updated_callback
    /\ ~should_get_a11y_focus_fail
    /\ update_highlights_called
    /\ last_set_focus = A11yFocusInfo(2, 1)
    /\ mock_last.result = A11yFocusInfo(2, 1)

\* C25: the on-focus-updated callback of a successful SetA11yFocus(koid,
\* node_id) receives (koid, node_id) whatever should_get_a11y_focus_fail is,
\* and no SetA11yFocus changes get_a11y_focus_called.
C25_CallbackGetsStoredFocus ==
    mock_last.op = "SetA11yFocus" =>
        /\ \A k \in EventsOf("on_a11y_focus_updated") :
              mock_last.trace[k].value = RequestedFocus
        /\ get_a11y_focus_called = mock_last.flags_before.get_called

\* C26: after ResetExpectations each 'was called' flag is false until its
\* operation is called again; ResetExpectations leaves the stored focus and
\* the failure flags as they were; no other operation clears a flag.
C26_ResetClearsEveryFlag ==
    /\ get_a11y_focus_called => "GetA11yFocus" \in called_since_reset
    /\ set_a11y_focus_called => "SetA11yFocus" \in called_since_reset
    /\ update_highlights_called => "UpdateHighlights" \in called_since_reset
    /\ mock_last.op = "ResetExpectations" =>
          /\ a11y_focus_info = mock_last.focus_before
          /\ should_get_a11y_focus_fail = mock_last.flags_before.get_fail
          /\ should_set_a11y_focus_fail = mock_last.flags_before.set_fail
    /\ mock_last.op \notin {"none", "ResetExpectations"} =>
          /\ mock_last.flags_before.get_called => get_a11y_focus_called
          /\ mock_last.flags_before.set_called => set_a11y_focus_called
          /\ mock_last.flags_before.highlights_called => update_highlights_called

C21_LncfPacking ==
    /\ \A idx \in pk_reads : idx < kMemoryObjectControlStateEntries
    /\ \A k \in DOMAIN lncf_mocs_32 :
          LET word == lncf_mocs_32[k]
              lo == lncf_mocs[2 * (k - 1)]
              hi == lncf_mocs[2 * (k - 1) + 1]
          IN  /\ word \subseteq RegisterBits
              /\ word \cap (0..15) = lo
              /\ {b - 16 : b \in word \cap (16..31)} = hi
    /\ pk_pc \in {"loop", "done"} => 2 * Len(lncf_mocs_32) = pk_i
    /\ pk_pc = "done" =>
          /\ 2 * Len(lncf_mocs_32) = kMemoryObjectControlStateEntries
          /\ pk_reads = TableIndices

C21_Witness ==
    /\ pk_pc = "done"
    /\ pk_fn = "InitCacheConfigGen12"
    /\ lncf_mocs[60] = 0..15
    /\ Len(lncf_mocs_32) = 31
    /\ lncf_mocs_32[31] = (0..15) \cup {b + 16 : b \in BitsOf(61, 16)}
    /\ lncf_mocs_32[2] = {1} \cup {16, 17}

====
